---- MODULE Spec2Model ----
(***************************************************************************)
(* Payload reconciliation state machine of the PSD procedural logic engine *)
(* (store/ProceduralContext.tsx, components/RemapperNode.tsx).             *)
(*                                                                         *)
(* Ten specifications share the definitions of this module:                *)
(*   SpecReconcile  reconcileTerminalState as a function of its arguments  *)
(*   SpecStore      the payload registry under the store's API             *)
(*   Spec           one remapper node, its effects and its requests, on    *)
(*                  the store                                               *)
(*   SpecChain      the same node in a longer run of prompt edits          *)
(*   SpecResolve    resolveLayer as a function of a name and a design tree *)
(*   SpecTransform  the layout transform of the remapper node as a         *)
(*                  function of the boxes, the strategy and the layers     *)
(*   SpecNotify     the registry of one node and the timers that deliver   *)
(*                  its events                                             *)
(*   SpecSlots      the registry of two nodes with two handles each        *)
(*   SpecLive       Spec with the fairness of React's rendering and of the *)
(*                  promises of the generation service                     *)
(*   SpecCandidate  the candidate payload of the node as a function of its *)
(*                  inputs                                                 *)
(*                                                                         *)
(* A JavaScript object is a function from its defined keys to their        *)
(* values: a key that is absent or holds `undefined` is not in the DOMAIN. *)
(* `undefined` itself (no payload at all) is the empty function.           *)
(* Image references are non-empty strings, generation ids are positive     *)
(* integers (Date.now()), so "truthy" and "defined" coincide for them.     *)
(* JSON.stringify leaves undefined fields out, so equality of two          *)
(* serialised payloads is equality of these functions.                     *)
(*                                                                         *)
(* Not modelled: the cross-fade buffer of the overlay (displayPreviews),   *)
(* blob revocation, a previewUrl on the resolved source context, the       *)
(* rounding of floating-point numbers (SpecTransform computes in exact     *)
(* fractions) and the order of the keys of a serialised payload.  Outside  *)
(* SpecTransform the layers of a payload carry their id and type only.     *)
(***************************************************************************)
EXTENDS Integers, Sequences, FiniteSets, TLC

VARIABLES
    \* the reconciler call under test (SpecReconcile)
    incomingPayload,   \* argument 1
    currentPayload,    \* argument 2
    result,            \* reconcileTerminalState(incomingPayload, currentPayload)
    result2,           \* reconcileTerminalState(incomingPayload, result)
    pc,                \* "start" | "once" | "twice" (SpecReconcile)
    \* the store (ProceduralStoreProvider)
    payloadRegistry,   \* payloadRegistry[nodeId]: handle -> payload | Undefined
    \* the remapper node (RemapperNode), latest React state
    confirmations,           \* slot -> confirmed prompt, "" when none
    isGeneratingPreview,     \* slot -> BOOLEAN
    globalGenerationAllowed, \* data.remapperConfig.generationAllowed ?? true
    instanceSettings,        \* slot -> instanceSettings[i].generationAllowed ?? true
    resolved,                \* slot -> what the source and target edges resolve to
    lastPromptsRef,          \* slot -> prompt of the last dispatch, "" when none
    committed,               \* the state the last render closed over
    \* the environment of the remapper node
    requests,          \* generateContent calls in dispatch order: slot and
                       \* state ("pending"; "filled" with an image or "settled"
                       \* without; "done" once no older request is pending)
    now,               \* Date.now()
    apiKey,            \* process.env.API_KEY is set
    \* observers (read by the properties only)
    lastStep,          \* the operation that led to this state, with the
                       \* events it emitted and the direction of a seek; in
                       \* SpecNotify also its argument, the events delivered
                       \* and whether the updater returned a new object; in
                       \* SpecSlots also the node it addresses
    evicted,           \* handles whose history has dropped an entry at the cap
    accepted,          \* slot -> image of the last explicit confirm, "" when none
    \* the resolveLayer call under test (SpecResolve)
    templateName,      \* argument 1, a string as its sequence of characters
    designTree,        \* argument 2, a sequence of layers or Null
    resolverResult,    \* resolveLayer(templateName, designTree)
    \* the layout transform under test (SpecTransform)
    sourceRect,        \* sourceData.originalBounds
    targetRect,        \* targetData.bounds
    aiStrategy,        \* sourceData.aiStrategy, Undefined when none
    sourceLayers,      \* sourceData.layers
    transformResult,   \* the scale and the transformed layers
    \* the event loop and the whole registry (SpecNotify, SpecSlots)
    timers,            \* events whose dispatch setTimeout(..., 0) has scheduled
    registry           \* node -> handle -> payload | Undefined

callVars == <<incomingPayload, currentPayload, result, result2, pc>>
storeVars == <<payloadRegistry, lastStep, evicted>>
nodeVars == <<confirmations, isGeneratingPreview, globalGenerationAllowed,
              instanceSettings, resolved, lastPromptsRef, committed>>
envVars == <<requests, now, apiKey, accepted>>
resolverVars == <<templateName, designTree, resolverResult>>
transformVars == <<sourceRect, targetRect, aiStrategy, sourceLayers, transformResult>>
otherVars == <<resolverVars, transformVars, timers, registry>>
vars == <<incomingPayload, currentPayload, result, result2, pc,
          payloadRegistry, confirmations, isGeneratingPreview,
          globalGenerationAllowed, instanceSettings, resolved, lastPromptsRef,
          committed, requests, now, apiKey, lastStep, evicted,
          accepted, templateName, designTree, resolverResult, sourceRect,
          targetRect, aiStrategy, sourceLayers, transformResult, timers,
          registry>>

----------------------------------------------------------------------------
(* Bounds of the model *)

\* generation ids (Date.now() values) range over 1..MaxGen
MaxGen == 2

\* the clock of the remapper node runs over 1..MaxClock
MaxClock == 2

\* generation requests dispatched in one run
MaxRequests == 2

\* generation requests dispatched in one run of prompt edits (SpecChain)
MaxChain == 4

\* characters of a requested name (SpecResolve)
MaxName == 3

\* depth of a design tree and number of its top-level layers (SpecResolve)
MaxDepth == 3
MaxWidth == 2

\* depth of the layers handed to the layout transform (SpecTransform)
MaxNest == 2

\* timers that may be due at once (SpecNotify)
MaxTimers == 2

(* Program constants *)

\* "Buffer Limit: Keep last 5"
HistoryCap == 5

\* data.instanceCount || 1
instanceCount == 1

\* scaleThreshold = 2.0
scaleThreshold == 2

----------------------------------------------------------------------------
(* JavaScript object helpers *)

Undefined == <<>>

Has(p, k) == k \in DOMAIN p

\* { [k]: v }
Field(k, v) == [x \in {k} |-> v]

\* { [k]: p[k] }, nothing when p[k] is undefined
Maybe(k, p) == IF Has(p, k) THEN Field(k, p[k]) ELSE Undefined

\* { [k]: p[k] || q[k] } for values whose truthiness is their definedness
Or2(k, p, q) == IF Has(p, k) THEN Field(k, p[k]) ELSE Maybe(k, q)

\* p without the keys K
Del(p, K) == [x \in DOMAIN p \ K |-> p[x]]

\* the object literal { ...base, k1: e1, ... }: K are the keys the literal
\* writes, frag holds those of them whose expression is defined
Assign(base, K, frag) == frag @@ Del(base, K)

\* p.generationId, 0 (falsy) when undefined
GenId(p) == IF Has(p, "generationId") THEN p.generationId ELSE 0

\* p.previewUrl, "" (falsy) when undefined
PreviewUrl(p) == IF Has(p, "previewUrl") THEN p.previewUrl ELSE ""

\* p.history || []
HistoryOf(p) == IF Has(p, "history") THEN p.history ELSE <<>>

\* truthiness of a boolean field
Truthy(p, k) == Has(p, k) /\ p[k] = TRUE

\* arr.slice(0, n): keeps the oldest entries
SliceFirst(s, n) == IF Len(s) <= n THEN s ELSE SubSeq(s, 1, n)

\* arr.slice(-n)
SliceLast(s, n) == IF Len(s) <= n THEN s ELSE SubSeq(s, Len(s) - n + 1, Len(s))

IsGenerativeLayer(l) == l.type = "generative"

----------------------------------------------------------------------------
(* reconcileTerminalState, rule by rule *)

\* a kill switch that leaves the draft in place
KillSwitchKeepsDraft(inc) ==
    Assign(inc,
           {"previewUrl", "history", "activeHistoryIndex", "isConfirmed",
            "isTransient", "isSynthesizing", "requiresGeneration",
            "metrics", "layers"},
           [history |-> <<>>, activeHistoryIndex |-> 0, isConfirmed |-> FALSE,
            isTransient |-> FALSE, isSynthesizing |-> FALSE,
            requiresGeneration |-> FALSE,
            layers |-> SelectSeq(inc.layers, LAMBDA l : ~IsGenerativeLayer(l))]
           @@ Maybe("metrics", inc))

\* 0. GENERATIVE LOGIC GATE: HARD STOP
KillSwitch(inc) ==
    Assign(inc,
           {"previewUrl", "history", "activeHistoryIndex", "isConfirmed",
            "isTransient", "isSynthesizing", "requiresGeneration",
            "latestDraftUrl", "metrics", "layers"},
           [history |-> <<>>, activeHistoryIndex |-> 0, isConfirmed |-> FALSE,
            isTransient |-> FALSE, isSynthesizing |-> FALSE,
            requiresGeneration |-> FALSE,
            layers |-> SelectSeq(inc.layers, LAMBDA l : ~IsGenerativeLayer(l))]
           @@ Maybe("metrics", inc))

\* a stale guard with the comparison turned round
IsStaleWhenNewer(inc, cur) ==
    GenId(cur) # 0 /\ GenId(inc) # 0 /\ GenId(inc) > GenId(cur)

\* 1. STALE GUARD
IsStale(inc, cur) ==
    GenId(cur) # 0 /\ GenId(inc) # 0 /\ GenId(inc) < GenId(cur)

\* 2. SANITATION (Geometric Reset)
IdleReset(inc) ==
    Assign(inc,
           {"previewUrl", "history", "activeHistoryIndex", "isConfirmed",
            "isTransient", "isSynthesizing"},
           [history |-> <<>>, activeHistoryIndex |-> 0, isConfirmed |-> FALSE,
            isTransient |-> FALSE, isSynthesizing |-> FALSE])

\* a flush that takes the image and the generation of the candidate
FlushTakesCandidate(inc, cur) ==
    Assign(IF cur # Undefined THEN cur ELSE inc,
           {"isSynthesizing", "previewUrl", "history", "sourceReference",
            "targetContainer", "metrics", "generationId", "generationAllowed"},
           [isSynthesizing |-> TRUE, history |-> HistoryOf(cur),
            generationAllowed |-> TRUE]
           @@ Or2("previewUrl", inc, cur)
           @@ Or2("sourceReference", inc, cur)
           @@ (IF Has(inc, "targetContainer") \/ Has(cur, "targetContainer")
               THEN Or2("targetContainer", inc, cur)
               ELSE Field("targetContainer", ""))
           @@ Or2("metrics", inc, cur)
           @@ Or2("generationId", inc, cur))

\* 3. FLUSH PHASE (Start Synthesis)
Flush(inc, cur) ==
    Assign(IF cur # Undefined THEN cur ELSE inc,
           {"isSynthesizing", "previewUrl", "history", "sourceReference",
            "targetContainer", "metrics", "generationId", "generationAllowed"},
           [isSynthesizing |-> TRUE, history |-> HistoryOf(cur),
            generationAllowed |-> TRUE]
           @@ Maybe("previewUrl", cur)
           @@ Or2("sourceReference", inc, cur)
           @@ (IF Has(inc, "targetContainer") \/ Has(cur, "targetContainer")
               THEN Or2("targetContainer", inc, cur)
               ELSE Field("targetContainer", ""))
           @@ Or2("metrics", inc, cur)
           @@ Maybe("generationId", cur))

\* a history that never takes the stored preview
NextHistoryNeverPushes(inc, cur) == HistoryOf(cur)

\* a history that takes the stored preview without asking whether the
\* candidate brings a new image
NextHistoryAlwaysPushes(inc, cur) ==
    LET nextHistory == HistoryOf(cur)
        currentUrl  == PreviewUrl(cur)
        pushed      == IF nextHistory = <<>> \/ nextHistory[Len(nextHistory)] # currentUrl
                       THEN Append(nextHistory, currentUrl)
                       ELSE nextHistory
    IN IF currentUrl # ""
       THEN (IF Len(pushed) > HistoryCap THEN SliceLast(pushed, HistoryCap) ELSE pushed)
       ELSE nextHistory

\* 4. HISTORY ACCUMULATION & FILL PHASE
NextHistory(inc, cur) ==
    LET nextHistory == HistoryOf(cur)
        currentUrl  == PreviewUrl(cur)
        incomingUrl == PreviewUrl(inc)
        isNewImage  == incomingUrl # "" /\ incomingUrl # currentUrl
        pushed      == IF nextHistory = <<>> \/ nextHistory[Len(nextHistory)] # currentUrl
                       THEN Append(nextHistory, currentUrl)
                       ELSE nextHistory
    IN IF isNewImage /\ currentUrl # ""
       THEN (IF Len(pushed) > HistoryCap THEN SliceLast(pushed, HistoryCap) ELSE pushed)
       ELSE nextHistory

\* a confirmation that a draft keeps
NextConfirmedOfDraft(inc, cur) ==
    IF Has(inc, "isConfirmed") THEN inc.isConfirmed
    ELSE IF Has(cur, "isConfirmed") THEN cur.isConfirmed
    ELSE FALSE

\* 5. REFINEMENT PERSISTENCE (State Guard)
NextConfirmed(inc, cur) ==
    IF Truthy(inc, "isTransient") THEN FALSE
    ELSE IF Has(inc, "isConfirmed") THEN inc.isConfirmed
    ELSE IF Has(cur, "isConfirmed") THEN cur.isConfirmed
    ELSE FALSE

\* 6. GEOMETRIC PRESERVATION
IsGeometricUpdate(inc, cur) == GenId(inc) = 0 /\ GenId(cur) # 0

\* a preservation that keeps the candidate's history and index
GeometricPreservationOfPreviewOnly(inc, cur) ==
    Assign(inc,
           {"previewUrl", "latestDraftUrl",
            "generationId", "isSynthesizing", "isConfirmed", "isTransient",
            "sourceReference", "generationAllowed"},
           [generationAllowed |-> TRUE]
           @@ Maybe("previewUrl", cur) @@ Maybe("latestDraftUrl", cur)
           @@ Maybe("generationId", cur) @@ Maybe("isSynthesizing", cur)
           @@ Maybe("isConfirmed", cur) @@ Maybe("isTransient", cur)
           @@ Or2("sourceReference", cur, inc))

GeometricPreservation(inc, cur) ==
    Assign(inc,
           {"previewUrl", "history", "activeHistoryIndex", "latestDraftUrl",
            "generationId", "isSynthesizing", "isConfirmed", "isTransient",
            "sourceReference", "generationAllowed"},
           [generationAllowed |-> TRUE]
           @@ Maybe("previewUrl", cur) @@ Maybe("history", cur)
           @@ Maybe("activeHistoryIndex", cur) @@ Maybe("latestDraftUrl", cur)
           @@ Maybe("generationId", cur) @@ Maybe("isSynthesizing", cur)
           @@ Maybe("isConfirmed", cur) @@ Maybe("isTransient", cur)
           @@ Or2("sourceReference", cur, inc))

\* 7. FINAL CONSTRUCTION
FinalConstruction(inc, cur) ==
    LET nextHistory == NextHistory(inc, cur)
    IN Assign(inc,
              {"history", "activeHistoryIndex", "isConfirmed", "sourceReference",
               "generationId", "generationAllowed"},
              [history |-> nextHistory,
               activeHistoryIndex |-> IF Has(inc, "activeHistoryIndex")
                                      THEN inc.activeHistoryIndex
                                      ELSE Len(nextHistory),
               isConfirmed |-> NextConfirmed(inc, cur),
               generationAllowed |-> TRUE]
              @@ Or2("sourceReference", inc, cur)
              @@ Or2("generationId", inc, cur))

reconcileTerminalState(inc, cur) ==
    IF Has(inc, "generationAllowed") /\ inc.generationAllowed = FALSE
    THEN KillSwitch(inc)
    ELSE IF IsStale(inc, cur) THEN cur
    ELSE IF Has(inc, "status") /\ inc.status = "idle" THEN IdleReset(inc)
    ELSE IF Truthy(inc, "isSynthesizing") THEN Flush(inc, cur)
    ELSE IF IsGeometricUpdate(inc, cur) THEN GeometricPreservation(inc, cur)
    ELSE FinalConstruction(inc, cur)

----------------------------------------------------------------------------
(* The store's operations on the payload registry of one node.  Each is the *)
(* functional updater handed to setPayloadRegistry, applied to the registry *)
(* `prev`.  JSON.stringify equality of two payloads is their equality as    *)
(* objects (undefined fields are not serialised).                           *)

\* prev with [handleId]: payload
Store(prev, handleId, payload) == [prev EXCEPT ![handleId] = payload]

\* a test that never finds the update to be without effect
IsNoOpNever(cur, reconciledPayload) == FALSE

\* Deep equality check optimization:
\* currentPayload && JSON.stringify(currentPayload) === JSON.stringify(reconciledPayload)
IsNoOp(cur, reconciledPayload) == cur # Undefined /\ cur = reconciledPayload

registerPayload(prev, handleId, payload) ==
    LET cur == prev[handleId]
        reconciledPayload == reconcileTerminalState(payload, cur)
    IN IF IsNoOp(cur, reconciledPayload) THEN prev
       ELSE Store(prev, handleId, reconciledPayload)

\* a registry that holds the written node only
InNodeAlone(prev, nodeId, nodeRecord) ==
    [n \in DOMAIN prev |->
        IF n = nodeId THEN nodeRecord ELSE [h \in DOMAIN nodeRecord |-> Undefined]]

\* { ...prev, [nodeId]: nodeRecord } on the registry of all nodes.  A node
\* without a record reads as the record without payloads (prev[nodeId] || {}).
InNode(prev, nodeId, nodeRecord) == [prev EXCEPT ![nodeId] = nodeRecord]

\* the updater of registerPayload returns `prev` itself (React then keeps
\* the state object and renders nothing)
RegisterReturnsPrev(prev, handleId, payload) ==
    IsNoOp(prev[handleId], reconcileTerminalState(payload, prev[handleId]))

\* A Partial<TransformedPayload>: `set` holds the keys given a value, `unset`
\* the keys given explicitly as undefined.
NoUnset == {}

MergePartial(cur, partial) == partial.set @@ Del(cur, partial.unset)

\* an updatePayload that stores the merged payload as it is
updatePayloadUnreconciled(prev, handleId, partial) ==
    LET cur == prev[handleId]
    IN IF cur = Undefined /\ ~Has(partial.set, "sourceContainer")
                          /\ ~Has(partial.set, "previewUrl")
       THEN prev
       ELSE Store(prev, handleId,
                  IF cur # Undefined THEN MergePartial(cur, partial) ELSE partial.set)

updatePayload(prev, handleId, partial) ==
    LET cur == prev[handleId]
    IN IF cur = Undefined /\ ~Has(partial.set, "sourceContainer")
                          /\ ~Has(partial.set, "previewUrl")
       THEN prev
       ELSE LET mergedPayload == IF cur # Undefined THEN MergePartial(cur, partial)
                                 ELSE partial.set
                reconciledPayload == reconcileTerminalState(mergedPayload, cur)
            IN IF IsNoOp(cur, reconciledPayload) THEN prev
               ELSE Store(prev, handleId, reconciledPayload)

\* the updater of updatePayload returns `prev` itself
UpdateReturnsPrev(prev, handleId, partial) ==
    LET cur == prev[handleId]
    IN \/ cur = Undefined /\ ~Has(partial.set, "sourceContainer")
                          /\ ~Has(partial.set, "previewUrl")
       \/ IsNoOp(cur, reconcileTerminalState(
                        IF cur # Undefined THEN MergePartial(cur, partial)
                        ELSE partial.set, cur))

updatePreview(prev, handleId, url) ==
    LET cur == prev[handleId]
    IN IF cur = Undefined THEN prev
       ELSE IF PreviewUrl(cur) = url THEN prev
       ELSE Store(prev, handleId, Assign(cur, {"previewUrl"}, Field("previewUrl", url)))

\* CHECK FOR NON-BILLABLE DRAFT REFRESH (Event Emission): the 'payload-updated'
\* events registerPayload hands to window.dispatchEvent
DraftRefresh(prev, handleId, payload) ==
    LET cur == prev[handleId]
        reconciledPayload == reconcileTerminalState(payload, cur)
        isPreviewChanged == Maybe("previewUrl", cur) # Maybe("previewUrl", reconciledPayload)
        isStructureStable ==
            /\ Maybe("status", cur) = Maybe("status", reconciledPayload)
            /\ Maybe("requiresGeneration", cur) = Maybe("requiresGeneration", reconciledPayload)
    IN IF cur # Undefined /\ cur # reconciledPayload
          /\ isPreviewChanged /\ isStructureStable
       THEN { [handleId |-> handleId, type |-> "DRAFT_REFRESH", isBillable |-> FALSE]
              @@ (IF Has(reconciledPayload, "previewUrl")
                  THEN Field("newPreviewUrl", reconciledPayload.previewUrl)
                  ELSE Undefined) }
       ELSE {}

\* updatePayload emits no event
NoEvents == {}

\* window.dispatchEvent(event) called from inside the updater
DispatchNow(queue, events) == [timers |-> queue, delivered |-> events]

\* setTimeout(() => window.dispatchEvent(event), 0): the events (at most
\* one) join the timers that are due, and none is delivered by this step
SetTimeout(queue, events) ==
    [timers |-> queue \o (IF events = {} THEN <<>> ELSE <<CHOOSE e \in events : TRUE>>),
     delivered |-> {}]

Max(a, b) == IF a >= b THEN a ELSE b
Min(a, b) == IF a <= b THEN a ELSE b

\* a seek that leaves the stored confirmation as it is
seekHistoryKeepsConfirmation(prev, handleId, direction) ==
    LET payload == prev[handleId]
        history == HistoryOf(payload)
        maxIndex == Len(history)
        currentIndex == IF Has(payload, "activeHistoryIndex")
                        THEN payload.activeHistoryIndex ELSE maxIndex
        nextIndex == Max(0, Min(currentIndex + direction, maxIndex))
    IN IF payload = Undefined THEN prev
       ELSE IF nextIndex = currentIndex THEN prev
       ELSE IF nextIndex < Len(history)
            THEN Store(prev, handleId,
                       Assign(payload, {"activeHistoryIndex", "previewUrl"},
                              [activeHistoryIndex |-> nextIndex,
                               previewUrl |-> history[nextIndex + 1]]))
            ELSE prev

seekHistory(prev, handleId, direction) ==
    LET payload == prev[handleId]
        history == HistoryOf(payload)
        maxIndex == Len(history)
        currentIndex == IF Has(payload, "activeHistoryIndex")
                        THEN payload.activeHistoryIndex ELSE maxIndex
        nextIndex == Max(0, Min(currentIndex + direction, maxIndex))
    IN IF payload = Undefined THEN prev
       ELSE IF nextIndex = currentIndex THEN prev
       ELSE IF nextIndex < Len(history)
            THEN Store(prev, handleId,
                       Assign(payload, {"activeHistoryIndex", "previewUrl", "isConfirmed"},
                              [activeHistoryIndex |-> nextIndex,
                               previewUrl |-> history[nextIndex + 1],
                               isConfirmed |-> FALSE]))
            \* at the tip there is no buffer for the "present": nothing to show
            ELSE prev

unregisterNode(prev) == [h \in DOMAIN prev |-> Undefined]

----------------------------------------------------------------------------
(* The remapper node: the partial updates it sends to the store *)

\* a confirm that does not make the image the reference of the next generation
ConfirmPartialWithoutReference(url, t) ==
    [set |-> [previewUrl |-> url, isConfirmed |-> TRUE, isTransient |-> FALSE,
              generationId |-> t],
     unset |-> NoUnset]

\* handleConfirmGeneration
ConfirmPartial(url, t) ==
    [set |-> [previewUrl |-> url, isConfirmed |-> TRUE, isTransient |-> FALSE,
              sourceReference |-> url, generationId |-> t],
     unset |-> NoUnset]

\* GEOMETRIC RESET
GeometricResetPartial ==
    [set |-> [isConfirmed |-> FALSE, isTransient |-> FALSE], unset |-> {"previewUrl"}]

\* AUTOMATED REFINEMENT RESET
RevokePartial == [set |-> [isConfirmed |-> FALSE], unset |-> NoUnset]

\* PHASE 1: FLUSH
FlushPartial == [set |-> [isSynthesizing |-> TRUE], unset |-> NoUnset]

\* PHASE 2: FILL
FillPartial(url, t) ==
    [set |-> [previewUrl |-> url, isTransient |-> TRUE, isSynthesizing |-> FALSE,
              generationId |-> t],
     unset |-> NoUnset]

\* a failure report that also drops the preview
FailPartialDropsPreview ==
    [set |-> [isSynthesizing |-> FALSE], unset |-> {"previewUrl", "history"}]

\* catch (e)
FailPartial == [set |-> [isSynthesizing |-> FALSE], unset |-> NoUnset]

----------------------------------------------------------------------------
(* The remapper node: what a render computes.  `c` is the state the render *)
(* closes over: the registry and the node's own state at that moment.      *)

\* one output handle result-out-<i> per instance
Handles == 0 .. instanceCount - 1

Prompts == {"A", "B"}

\* what the source and target edges of an instance resolve to
Disconnected == [ready |-> FALSE]

Strategies ==
    { [method |-> "GENERATIVE", generativePrompt |-> p,
       isExplicitIntent |-> TRUE, suggestedScale |-> 1] : p \in Prompts }
    \cup
    { [method |-> "GEOMETRIC", generativePrompt |-> "",
       isExplicitIntent |-> FALSE, suggestedScale |-> 1] }

Contexts ==
    {Disconnected}
    \cup { [ready |-> TRUE, scale |-> 1, aiStrategy |-> st] : st \in Strategies }

\* sourceData.aiStrategy?.generativePrompt, "" (falsy) when undefined
CurrentPrompt(sourceData) ==
    IF Has(sourceData, "aiStrategy") THEN sourceData.aiStrategy.generativePrompt ELSE ""

\* globalGenerationAllowed && localAllowed
EffectiveAllowed(c, i) == c.globalGenerationAllowed /\ c.instanceSettings[i]

\* a status that asks for confirmation of explicit intents only
CandidateStatusOfIntent(currentPrompt, isConfirmed, isExplicit, isHighStretch) ==
    IF currentPrompt # "" /\ ~isConfirmed /\ isExplicit
    THEN "awaiting_confirmation" ELSE "success"

\* let status = 'success'; if (currentPrompt) { if (isConfirmed) ... else if
\* (isExplicit || isHighStretch) status = 'awaiting_confirmation' }
CandidateStatus(currentPrompt, isConfirmed, isExplicit, isHighStretch) ==
    IF currentPrompt # "" /\ ~isConfirmed /\ (isExplicit \/ isHighStretch)
    THEN "awaiting_confirmation" ELSE "success"

\* instances[i].payload, Undefined for null
InstancePayload(c, i) ==
    LET sourceData == c.resolved[i]
    IN IF ~sourceData.ready THEN Undefined
       ELSE
       LET strategy == IF Has(sourceData, "aiStrategy") THEN sourceData.aiStrategy
                       ELSE Undefined
           scale == IF strategy # Undefined THEN strategy.suggestedScale
                    ELSE sourceData.scale
           transformedLayers == << [id |-> "L1", type |-> "pixel"] >>
           currentPrompt == CurrentPrompt(sourceData)
           confirmedPrompt == c.confirmations[i]
           isConfirmed == currentPrompt # "" /\ currentPrompt = confirmedPrompt
           isExplicit == strategy # Undefined /\ strategy.isExplicitIntent
           isHighStretch == scale > scaleThreshold
           requiresGeneration == currentPrompt # "" /\ isConfirmed
           status == CandidateStatus(currentPrompt, isConfirmed, isExplicit, isHighStretch)
           genLayer == [id |-> "gen-layer", type |-> "generative"]
           storePayload == c.payloadRegistry[i]
       IN [status |-> status,
           sourceNodeId |-> "psd",
           sourceContainer |-> "SRC",
           targetContainer |-> "SLOT",
           layers |-> IF requiresGeneration THEN <<genLayer>> \o transformedLayers
                      ELSE transformedLayers,
           scaleFactor |-> scale,
           metrics |-> "metrics-new",
           requiresGeneration |-> requiresGeneration,
           isConfirmed |-> isConfirmed,
           isTransient |-> ~isConfirmed,
           generationAllowed |-> EffectiveAllowed(c, i)]
          @@ Maybe("previewUrl", storePayload)
          @@ Maybe("sourceReference", strategy)
          @@ Maybe("generationId", storePayload)
          @@ Maybe("history", storePayload)
          @@ Maybe("activeHistoryIndex", storePayload)
          @@ Maybe("latestDraftUrl", storePayload)
          @@ Maybe("isSynthesizing", storePayload)

----------------------------------------------------------------------------
(* The remapper node: its effects.  An effect reads the render's closure `c` *)
(* and queues functional updates; `w` is the latest state those updates are  *)
(* applied to, in the order they are queued.                                 *)

\* the image a request returns: request k of the run returns Images[k]
Images == <<"u1", "u2", "u3", "u4", "u5", "u6", "u7", "u8">>
ImageOf(k) == Images[k]

\* Sync Payloads to Store, for instance i
SyncPayloads(c, w, i) ==
    LET payload == InstancePayload(c, i)
    IN IF payload # Undefined /\ ~c.isGeneratingPreview[i]
       THEN [w EXCEPT !.payloadRegistry = registerPayload(@, i, payload)]
       ELSE w

\* generateDraft up to its first await
generateDraft(w, i, prompt) ==
    LET started == [w EXCEPT !.isGeneratingPreview[i] = TRUE,
                             !.dispatched = @ \cup {i}]
        flushed == [started EXCEPT
                        !.payloadRegistry = updatePayload(@, i, FlushPartial)]
    IN IF ~apiKey
       \* `if (!apiKey) return`, then the finally block
       THEN [flushed EXCEPT !.isGeneratingPreview[i] = FALSE]
       ELSE [flushed EXCEPT !.requests =
                 Append(@, [slot |-> i, state |-> "pending"])]

\* a guard that only asks for a payload
SynthesisGuardIgnoresGate(payload) == payload # Undefined

\* SYNTHESIS GUARD: `!instance.payload?.generationAllowed` is false
SynthesisGuard(payload) == payload # Undefined /\ payload.generationAllowed

\* LAZY SYNTHESIS & MULTI-MODAL GROUNDING & AUTOMATED RESET, for instance i
LazySynthesis(c, w, i) ==
    LET payload == InstancePayload(c, i)
    IN IF ~SynthesisGuard(payload)
       THEN (IF c.isGeneratingPreview[i]
             THEN [w EXCEPT !.isGeneratingPreview[i] = FALSE]
             ELSE w)
       ELSE
       LET strategy == IF Has(c.resolved[i], "aiStrategy")
                       THEN c.resolved[i].aiStrategy ELSE Undefined
           currentPrompt == CurrentPrompt(c.resolved[i])
           lastPrompt == w.lastPromptsRef[i]
           hasPrompt == currentPrompt # ""
           promptChanged == hasPrompt /\ currentPrompt # lastPrompt
           isAwaiting == payload.status = "awaiting_confirmation"
           storePayload == c.payloadRegistry[i]
           hasPreview == PreviewUrl(storePayload) # ""
           needsInitialPreview == isAwaiting /\ hasPrompt /\ ~hasPreview
           lockedPrompt == c.confirmations[i]
           isRefinementDetected == currentPrompt # "" /\ lockedPrompt # ""
                                   /\ currentPrompt # lockedPrompt
           revoked == IF isRefinementDetected /\ Truthy(storePayload, "isConfirmed")
                      THEN [w EXCEPT !.payloadRegistry =
                                updatePayload(@, i, RevokePartial)]
                      ELSE w
       IN IF strategy # Undefined /\ strategy.method = "GEOMETRIC"
          THEN (IF hasPreview \/ Truthy(storePayload, "isConfirmed")
                THEN [w EXCEPT !.payloadRegistry =
                          updatePayload(@, i, GeometricResetPartial)]
                ELSE w)
          ELSE IF (promptChanged \/ needsInitialPreview)
                  /\ ~(c.isGeneratingPreview[i] /\ ~promptChanged)
               THEN generateDraft([revoked EXCEPT !.lastPromptsRef[i] = currentPrompt],
                                  i, currentPrompt)
               ELSE revoked

\* instances.forEach of the two effects, over the first n instances
RECURSIVE SyncAll(_, _, _)
SyncAll(c, w, n) ==
    IF n = 0 THEN w ELSE SyncPayloads(c, SyncAll(c, w, n - 1), n - 1)

RECURSIVE LazySynthesisAll(_, _, _)
LazySynthesisAll(c, w, n) ==
    IF n = 0 THEN w ELSE LazySynthesis(c, LazySynthesisAll(c, w, n - 1), n - 1)

\* what the overlay of instance i shows and offers, from the render's closure
ShowOverlay(c, i) ==
    LET payload == InstancePayload(c, i)
        currentPrompt == CurrentPrompt(c.resolved[i])
        confirmedPrompt == c.confirmations[i]
        refinementPending == confirmedPrompt # "" /\ currentPrompt # ""
                             /\ confirmedPrompt # currentPrompt
    IN /\ payload # Undefined
       /\ payload.generationAllowed
       /\ \/ PreviewUrl(payload) # ""
          \/ payload.status = "awaiting_confirmation"
          \/ refinementPending

\* effectivePreview: the store's preview or else the candidate's
EffectivePreview(c, i) ==
    IF PreviewUrl(c.payloadRegistry[i]) # "" THEN PreviewUrl(c.payloadRegistry[i])
    ELSE PreviewUrl(InstancePayload(c, i))

ShowConfirmButton(c, i) ==
    LET storePayload == c.payloadRegistry[i]
        previewUrl == EffectivePreview(c, i)
        canonicalUrl == PreviewUrl(storePayload)
        isCurrentViewConfirmed == previewUrl # "" /\ canonicalUrl # ""
                                  /\ previewUrl = canonicalUrl
                                  /\ Truthy(storePayload, "isConfirmed")
        isGenerating == c.isGeneratingPreview[i] \/ Truthy(storePayload, "isSynthesizing")
    IN previewUrl # "" /\ ~isCurrentViewConfirmed /\ ~isGenerating

\* the seek button of the given direction is shown and enabled
SeekEnabled(c, i, direction) ==
    LET storePayload == c.payloadRegistry[i]
        history == HistoryOf(storePayload)
        maxIndex == Len(history)
        currentIndex == IF Has(storePayload, "activeHistoryIndex")
                        THEN storePayload.activeHistoryIndex ELSE maxIndex
    IN /\ Len(history) > 0
       /\ IF direction = -1 THEN currentIndex # 0 ELSE currentIndex < maxIndex

----------------------------------------------------------------------------
(* The name resolver (hooks/usePsdResolver.ts).  A string is the sequence   *)
(* of its characters.  A layer is an object with an id, a name and children *)
(* (either may be missing); the design tree is an array of layers, written  *)
(* [layers |-> ...], or null.                                               *)

Null == Undefined
NoLayer == Undefined
Tree(layers) == [layers |-> layers]

\* String.prototype.toLowerCase, on the characters of the model
LowerChar(ch) == IF ch = "S" THEN "s" ELSE ch
toLowerCase(str) == [k \in 1 .. Len(str) |-> LowerChar(str[k])]

\* white space as String.prototype.trim sees it
IsSpace(ch) == ch = " "

\* layer.name || ''
LayerName(layer) == IF Has(layer, "name") THEN layer.name ELSE <<>>

\* a match that never looks at the case
IsMatchIgnoringCase(layerName, targetName, caseSensitive) ==
    toLowerCase(layerName) = toLowerCase(targetName)

\* isMatch of findLayerDeep
IsMatch(layerName, targetName, caseSensitive) ==
    IF caseSensitive
    THEN layerName = targetName
    ELSE toLowerCase(layerName) = toLowerCase(targetName)

\* layer.children && layer.children.length > 0
HasChildren(layer) == Has(layer, "children") /\ Len(layer.children) > 0

\* Deep recursive search for a layer by name: the first match in pre-order
RECURSIVE findLayerDeep(_, _, _)
findLayerDeep(tree, targetName, caseSensitive) ==
    IF tree = <<>> THEN NoLayer
    ELSE LET layer == Head(tree)
         IN IF IsMatch(LayerName(layer), targetName, caseSensitive)
            THEN layer
            ELSE LET foundInChildren ==
                         IF HasChildren(layer)
                         THEN findLayerDeep(layer.children, targetName, caseSensitive)
                         ELSE NoLayer
                 IN IF foundInChildren # NoLayer
                    THEN foundInChildren
                    ELSE findLayerDeep(Tail(tree), targetName, caseSensitive)

\* templateName.replace(/^!+/, '')
RECURSIVE StripMarkers(_)
StripMarkers(str) ==
    IF str # <<>> /\ Head(str) = "!" THEN StripMarkers(Tail(str)) ELSE str

\* String.prototype.trim
RECURSIVE TrimStart(_)
TrimStart(str) ==
    IF str # <<>> /\ IsSpace(Head(str)) THEN TrimStart(Tail(str)) ELSE str

RECURSIVE TrimEnd(_)
TrimEnd(str) ==
    IF str # <<>> /\ IsSpace(str[Len(str)])
    THEN TrimEnd(SubSeq(str, 1, Len(str) - 1))
    ELSE str

trim(str) == TrimEnd(TrimStart(str))

\* a cleaning that removes one marker only
CleanNameOneMarker(name) ==
    trim(IF name # <<>> /\ Head(name) = "!" THEN Tail(name) ELSE name)

\* 1. Strip procedural prefixes (Rule 1: Stripping)
CleanName(name) == trim(StripMarkers(name))

ResolverResult(status, layer) == [status |-> status, layer |-> layer]

\* an empty-group test that only knows a missing children array
IsEmptyGroupWithoutArray(layer) == ~Has(layer, "children")

\* Content Validation (Rule: Empty Group)
IsEmptyGroup(layer) == ~Has(layer, "children") \/ Len(layer.children) = 0

\* 2. Strict Deep Search, 3. Loose Deep Search, 4. No match found
Match(cleanTargetName, tree) ==
    LET strictMatch == findLayerDeep(tree, cleanTargetName, TRUE)
        looseMatch  == findLayerDeep(tree, cleanTargetName, FALSE)
    IN IF strictMatch # NoLayer
       THEN IF IsEmptyGroup(strictMatch)
            THEN ResolverResult("EMPTY_GROUP", strictMatch)
            ELSE ResolverResult("RESOLVED", strictMatch)
       ELSE IF looseMatch # NoLayer
       THEN IF IsEmptyGroup(looseMatch)
            THEN ResolverResult("EMPTY_GROUP", looseMatch)
            ELSE ResolverResult("CASE_MISMATCH", looseMatch)
       ELSE ResolverResult("MISSING_DESIGN_GROUP", NoLayer)

\* a resolver that looks at the name before the tree
resolveLayerNameFirst(name, tree) ==
    IF name = <<>> THEN ResolverResult("NO_NAME", NoLayer)
    ELSE IF tree = Null THEN ResolverResult("DATA_LOCKED", NoLayer)
    ELSE IF CleanName(name) = <<>> THEN ResolverResult("NO_NAME", NoLayer)
    ELSE Match(CleanName(name), tree.layers)

resolveLayer(name, tree) ==
    IF tree = Null THEN ResolverResult("DATA_LOCKED", NoLayer)
    ELSE IF name = <<>> THEN ResolverResult("NO_NAME", NoLayer)
    ELSE IF CleanName(name) = <<>> THEN ResolverResult("NO_NAME", NoLayer)
    ELSE Match(CleanName(name), tree.layers)

----------------------------------------------------------------------------
(* The layout transform (components/RemapperNode.tsx, 3. Compute Payload).  *)
(* A number is an exact fraction [n, d] in lowest terms with d > 0: the     *)
(* rounding of a double is not modelled.  Boxes and layer coordinates come  *)
(* in as integers.                                                          *)

RECURSIVE GCD(_, _)
GCD(a, b) == IF b = 0 THEN a ELSE GCD(b, a % b)

Abs(a) == IF a < 0 THEN -a ELSE a

\* the number n / d, for d # 0
Frac(n, d) ==
    LET sign == IF d < 0 THEN -1 ELSE 1
        g    == GCD(Abs(n), Abs(d))
    IN [n |-> (sign * n) \div g, d |-> (sign * d) \div g]

Num(i) == Frac(i, 1)
Plus(a, b) == Frac(a.n * b.d + b.n * a.d, a.d * b.d)
Minus(a, b) == Frac(a.n * b.d - b.n * a.d, a.d * b.d)
Times(a, b) == Frac(a.n * b.n, a.d * b.d)
Over(a, b) == Frac(a.n * b.d, a.d * b.n)
Below(a, b) == a.n * b.d < b.n * a.d
MathMin(a, b) == IF Below(b, a) THEN b ELSE a
MathMax(a, b) == IF Below(a, b) THEN b ELSE a

\* the fraction of the target height a layer may bleed past the slot
MAX_BOUNDARY_VIOLATION_PERCENT == Frac(1, 10)

\* a baseline that fills the target instead of fitting into it
BaselineScaleFill(sourceBox, targetBox) ==
    MathMax(Over(Num(targetBox.w), Num(sourceBox.w)),
            Over(Num(targetBox.h), Num(sourceBox.h)))

\* let scale = Math.min(ratioX, ratioY)
BaselineScale(sourceBox, targetBox) ==
    MathMin(Over(Num(targetBox.w), Num(sourceBox.w)),
            Over(Num(targetBox.h), Num(sourceBox.h)))

\* scale, anchorX and anchorY of the transform
Placement(sourceBox, targetBox, strategy) ==
    LET scale   == IF strategy # Undefined THEN strategy.suggestedScale
                   ELSE BaselineScale(sourceBox, targetBox)
        scaledW == Times(Num(sourceBox.w), scale)
        scaledH == Times(Num(sourceBox.h), scale)
        centreY == Plus(Num(targetBox.y),
                        Over(Minus(Num(targetBox.h), scaledH), Num(2)))
    IN [scale   |-> scale,
        anchorX |-> Plus(Num(targetBox.x),
                         Over(Minus(Num(targetBox.w), scaledW), Num(2))),
        anchorY |-> IF strategy = Undefined THEN centreY
                    ELSE IF strategy.anchor = "TOP" THEN Num(targetBox.y)
                    ELSE IF strategy.anchor = "BOTTOM"
                    THEN Plus(Num(targetBox.y), Minus(Num(targetBox.h), scaledH))
                    ELSE centreY]

\* strategy?.overrides?.find(o => o.layerId === layer.id)
RECURSIVE Find(_, _)
Find(overrides, layerId) ==
    IF overrides = <<>> THEN Undefined
    ELSE IF Head(overrides).layerId = layerId THEN Head(overrides)
    ELSE Find(Tail(overrides), layerId)

FindOverride(strategy, layerId) ==
    IF strategy # Undefined /\ Has(strategy, "overrides")
    THEN Find(strategy.overrides, layerId)
    ELSE Undefined

\* a clamp that only stops a layer above the slot
ClampAbove(finalY, targetBox) ==
    LET bleedY == Times(Num(targetBox.h), MAX_BOUNDARY_VIOLATION_PERCENT)
    IN MathMax(Minus(Num(targetBox.y), bleedY), finalY)

\* finalY = Math.max(minY, Math.min(finalY, maxY))
Clamp(finalY, targetBox) ==
    LET bleedY == Times(Num(targetBox.h), MAX_BOUNDARY_VIOLATION_PERCENT)
        minY   == Minus(Num(targetBox.y), bleedY)
        maxY   == Plus(Plus(Num(targetBox.y), Num(targetBox.h)), bleedY)
    IN MathMax(minY, MathMin(finalY, maxY))

\* one layer of transformLayers, without its children
TransformLayer(layer, sourceBox, targetBox, strategy, parentDeltaX, parentDeltaY) ==
    LET at       == Placement(sourceBox, targetBox, strategy)
        relX     == Over(Num(layer.coords.x - sourceBox.x), Num(sourceBox.w))
        relY     == Over(Num(layer.coords.y - sourceBox.y), Num(sourceBox.h))
        geomX    == Plus(at.anchorX, Times(relX, Times(Num(sourceBox.w), at.scale)))
        geomY    == Plus(at.anchorY, Times(relY, Times(Num(sourceBox.h), at.scale)))
        override == FindOverride(strategy, layer.id)
        finalX   == IF override # Undefined
                    THEN Plus(Num(targetBox.x), Num(override.xOffset))
                    ELSE Plus(geomX, parentDeltaX)
        finalY   == Clamp(IF override # Undefined
                          THEN Plus(Num(targetBox.y), Num(override.yOffset))
                          ELSE Plus(geomY, parentDeltaY),
                          targetBox)
        layerScale == IF override # Undefined
                      THEN Times(at.scale, override.individualScale)
                      ELSE at.scale
    IN [id |-> layer.id,
        coords |-> [x |-> finalX, y |-> finalY,
                    w |-> Times(Num(layer.coords.w), layerScale),
                    h |-> Times(Num(layer.coords.h), layerScale)],
        transform |-> [scaleX |-> layerScale, scaleY |-> layerScale,
                       offsetX |-> finalX, offsetY |-> finalY]]

RECURSIVE transformLayers(_, _, _, _, _, _)
transformLayers(layers, sourceBox, targetBox, strategy, parentDeltaX, parentDeltaY) ==
    [k \in 1 .. Len(layers) |->
        TransformLayer(layers[k], sourceBox, targetBox, strategy,
                       parentDeltaX, parentDeltaY)
        @@ (IF Has(layers[k], "children")
            THEN [children |-> transformLayers(layers[k].children, sourceBox,
                                               targetBox, strategy,
                                               parentDeltaX, parentDeltaY)]
            ELSE Undefined)]

\* scaleFactor and layers of the payload (before the generative layer)
ComputePayload(sourceBox, targetBox, strategy, layers) ==
    [scaleFactor |-> Placement(sourceBox, targetBox, strategy).scale,
     layers |-> transformLayers(layers, sourceBox, targetBox, strategy, Num(0), Num(0))]

----------------------------------------------------------------------------
(* Inputs of the reconciler call under test *)

GenIds == 1 .. MaxGen

\* fragments { [k]: v } for v in S, plus the empty fragment when the field
\* may be undefined
Opt(k, S)  == {Undefined} \cup {Field(k, v) : v \in S}
Req(k, S)  == {Field(k, v) : v \in S}

\* geometry of a candidate computed by the layout transform: a synthetic
\* generative layer in front of the transformed source layers
CandidateGeometry ==
    [layers |-> << [id |-> "gen-layer", type |-> "generative"],
                   [id |-> "L1", type |-> "pixel"] >>,
     scaleFactor |-> 2,
     metrics |-> "metrics-new",
     requiresGeneration |-> TRUE,
     targetContainer |-> "SLOT"]

\* geometry of a payload stored earlier (before the node was resized)
StoredGeometry ==
    [layers |-> << [id |-> "L1", type |-> "pixel"] >>,
     scaleFactor |-> 1,
     metrics |-> "metrics-old",
     requiresGeneration |-> FALSE,
     targetContainer |-> "SLOT"]

\* the generative metadata a candidate copies from an older store snapshot
StaleCopies == {Undefined, [history |-> <<"u3">>, latestDraftUrl |-> "u3"]}

IncomingSet ==
    { CandidateGeometry @@ st @@ url @@ conf @@ tr @@ gid @@ syn @@ idx @@ ga @@ old :
        st   \in Req("status", {"success", "idle"}),
        url  \in Opt("previewUrl", {"u1", "u2"}),
        conf \in Opt("isConfirmed", BOOLEAN),
        tr   \in Req("isTransient", BOOLEAN),
        gid  \in Opt("generationId", GenIds),
        syn  \in Opt("isSynthesizing", {TRUE}),
        idx  \in Opt("activeHistoryIndex", {0}),
        ga   \in Req("generationAllowed", BOOLEAN),
        old  \in StaleCopies }

StoredHistories == { <<>>, <<"u1">>, <<"u1", "u2", "u1", "u2", "u1">> }

CurrentSet ==
    {Undefined} \cup
    { StoredGeometry @@ [status |-> "success", generationAllowed |-> TRUE,
                         history |-> h, activeHistoryIndex |-> Len(h),
                         isConfirmed |-> c, isTransient |-> ~c,
                         isSynthesizing |-> s]
      @@ url @@ gid @@ ref :
        h   \in StoredHistories,
        c   \in BOOLEAN,
        s   \in BOOLEAN,
        url \in Opt("previewUrl", {"u1", "u2"}),
        gid \in Opt("generationId", GenIds),
        ref \in Opt("sourceReference", {"u2"}) }

----------------------------------------------------------------------------
(* Initial values shared by the specifications *)

EmptyRegistry == [h \in Handles |-> Undefined]

Step(name, slots) == [name |-> name, slots |-> slots]

\* the history of a handle was full and has shifted
Overflowed(old, new) ==
    /\ Len(HistoryOf(old)) = HistoryCap
    /\ HistoryOf(new) # <<>>
    /\ HistoryOf(new) # HistoryOf(old)

Evictions(prev, next) ==
    evicted \cup {h \in Handles : Overflowed(prev[h], next[h])}

CallIdle ==
    /\ incomingPayload = Undefined /\ currentPayload = Undefined
    /\ result = Undefined /\ result2 = Undefined

StoreEmpty ==
    /\ payloadRegistry = EmptyRegistry
    /\ lastStep = Step("init", {})
    /\ evicted = {}

\* a node that has not rendered yet
NodeUnmounted ==
    /\ confirmations = [i \in Handles |-> ""]
    /\ isGeneratingPreview = [i \in Handles |-> FALSE]
    /\ globalGenerationAllowed = TRUE
    /\ instanceSettings = [i \in Handles |-> TRUE]
    /\ resolved = [i \in Handles |-> Disconnected]
    /\ lastPromptsRef = [i \in Handles |-> ""]
    /\ committed = Undefined

EnvIdle ==
    /\ requests = <<>>
    /\ now = 1
    /\ accepted = [i \in Handles |-> ""]

\* no resolver call, no transform, no timer and no other node
OthersIdle ==
    /\ templateName = <<>> /\ designTree = <<>> /\ resolverResult = Undefined
    /\ sourceRect = Undefined /\ targetRect = Undefined
    /\ aiStrategy = Undefined /\ sourceLayers = <<>>
    /\ transformResult = Undefined
    /\ timers = <<>>
    /\ registry = Undefined

----------------------------------------------------------------------------
(* SpecReconcile: the reconciler as a pure function of its two arguments *)

InitReconcile ==
    /\ incomingPayload \in IncomingSet
    /\ currentPayload \in CurrentSet
    /\ result = Undefined
    /\ result2 = Undefined
    /\ pc = "start"
    /\ StoreEmpty /\ NodeUnmounted /\ EnvIdle /\ OthersIdle /\ apiKey = FALSE

\* registerPayload's call of the middleware
Reconcile ==
    /\ pc = "start"
    /\ result' = reconcileTerminalState(incomingPayload, currentPayload)
    /\ pc' = "once"
    /\ UNCHANGED <<incomingPayload, currentPayload, result2, storeVars, nodeVars, envVars, otherVars>>

\* the same candidate registered again, against what the store now holds
ReconcileAgain ==
    /\ pc = "once"
    /\ result2' = reconcileTerminalState(incomingPayload, result)
    /\ pc' = "twice"
    /\ UNCHANGED <<incomingPayload, currentPayload, result, storeVars, nodeVars, envVars, otherVars>>

NextReconcile == Reconcile \/ ReconcileAgain

SpecReconcile == InitReconcile /\ [][NextReconcile]_vars

----------------------------------------------------------------------------
(* SpecStore: the registry under any sequence of calls of the store's API *)

\* candidates a caller registers: a closed gate or an idle status (both
\* strip the images), or a content update
StoreCandidates ==
    { CandidateGeometry @@ [status |-> "success", isTransient |-> FALSE,
                            isConfirmed |-> FALSE, generationAllowed |-> FALSE] @@ gid :
        gid \in Opt("generationId", GenIds) }
    \cup
    { CandidateGeometry @@ [status |-> "idle", isTransient |-> FALSE,
                            isConfirmed |-> FALSE, generationAllowed |-> TRUE,
                            previewUrl |-> "u1"] @@ gid :
        gid \in Opt("generationId", GenIds) }
    \cup
    { CandidateGeometry @@ [status |-> "success", isTransient |-> ~c,
                            isConfirmed |-> c, generationAllowed |-> TRUE]
      @@ url @@ gid @@ idx :
        c   \in BOOLEAN,
        url \in Opt("previewUrl", {"u1", "u2"}),
        gid \in Opt("generationId", GenIds),
        idx \in Opt("activeHistoryIndex", {1}) }

StorePartials ==
    {GeometricResetPartial, RevokePartial, FlushPartial, FailPartial}
    \cup {ConfirmPartial(u, t) : u \in {"u1", "u2"}, t \in GenIds}
    \cup {FillPartial(u, t) : u \in {"u1", "u2"}, t \in GenIds}

InitStore ==
    /\ CallIdle /\ pc = "store"
    /\ StoreEmpty /\ NodeUnmounted /\ EnvIdle /\ OthersIdle /\ apiKey = FALSE

StoreRegisterPayload ==
    \E h \in Handles, payload \in StoreCandidates :
        /\ payloadRegistry' = registerPayload(payloadRegistry, h, payload)
        /\ lastStep' = Step("registerPayload", {h})
                        @@ [events |-> DraftRefresh(payloadRegistry, h, payload)]
        /\ evicted' = Evictions(payloadRegistry, payloadRegistry')
        /\ UNCHANGED <<callVars, nodeVars, envVars, otherVars>>

StoreUpdatePayload ==
    \E h \in Handles, partial \in StorePartials :
        /\ payloadRegistry' = updatePayload(payloadRegistry, h, partial)
        /\ lastStep' = Step("updatePayload", {h}) @@ [events |-> NoEvents]
        /\ evicted' = Evictions(payloadRegistry, payloadRegistry')
        /\ UNCHANGED <<callVars, nodeVars, envVars, otherVars>>

StoreUpdatePreview ==
    \E h \in Handles, url \in {"u1", "u2"} :
        /\ payloadRegistry' = updatePreview(payloadRegistry, h, url)
        /\ lastStep' = Step("updatePreview", {h})
        /\ evicted' = Evictions(payloadRegistry, payloadRegistry')
        /\ UNCHANGED <<callVars, nodeVars, envVars, otherVars>>

StoreSeekHistory ==
    \E h \in Handles, direction \in {-1, 1} :
        /\ payloadRegistry' = seekHistory(payloadRegistry, h, direction)
        /\ lastStep' = Step("seekHistory", {h}) @@ [direction |-> direction]
        /\ evicted' = Evictions(payloadRegistry, payloadRegistry')
        /\ UNCHANGED <<callVars, nodeVars, envVars, otherVars>>

StoreUnregisterNode ==
    /\ payloadRegistry' = unregisterNode(payloadRegistry)
    /\ lastStep' = Step("unregisterNode", Handles)
    /\ evicted' = Evictions(payloadRegistry, payloadRegistry')
    /\ UNCHANGED <<callVars, nodeVars, envVars, otherVars>>

NextStore ==
    \/ StoreRegisterPayload
    \/ StoreUpdatePayload
    \/ StoreUpdatePreview
    \/ StoreSeekHistory
    \/ StoreUnregisterNode

SpecStore == InitStore /\ [][NextStore]_vars

----------------------------------------------------------------------------
(* Spec: one remapper node on the store.  React state holds the latest      *)
(* values (every queued functional update applied, in order); `committed`   *)
(* is the snapshot the handlers and effects of the last render closed over. *)
(* A render and the effects it schedules are one step.  The user acts on    *)
(* what the node shows once it has rendered its latest state; completions   *)
(* of requests and upstream changes arrive at any time.                     *)

Latest ==
    [payloadRegistry |-> payloadRegistry,
     confirmations |-> confirmations,
     isGeneratingPreview |-> isGeneratingPreview,
     globalGenerationAllowed |-> globalGenerationAllowed,
     instanceSettings |-> instanceSettings,
     resolved |-> resolved]

\* Date.now(): a reading not before the previous one
Clock == now .. Min(now + 1, MaxClock)

Init ==
    /\ CallIdle /\ pc = "node"
    /\ StoreEmpty /\ NodeUnmounted /\ EnvIdle /\ OthersIdle
    /\ apiKey \in BOOLEAN

\* a render of the node followed by its effects, in a run of at most
\* `limit` generation requests
RenderWithin(limit) ==
    /\ committed # Latest
    /\ LET c == Latest
           w0 == [payloadRegistry |-> payloadRegistry,
                  isGeneratingPreview |-> isGeneratingPreview,
                  lastPromptsRef |-> lastPromptsRef,
                  requests |-> requests,
                  dispatched |-> {}]
           w == LazySynthesisAll(c, SyncAll(c, w0, instanceCount), instanceCount)
       IN /\ Len(w.requests) <= limit
          /\ committed' = c
          /\ payloadRegistry' = w.payloadRegistry
          /\ isGeneratingPreview' = w.isGeneratingPreview
          /\ lastPromptsRef' = w.lastPromptsRef
          /\ requests' = w.requests
          /\ lastStep' = Step("Render", w.dispatched)
    /\ evicted' = Evictions(payloadRegistry, payloadRegistry')
    /\ UNCHANGED <<confirmations, globalGenerationAllowed, instanceSettings,
                   resolved, now, apiKey, accepted, callVars, otherVars>>

Render == RenderWithin(MaxRequests)

\* handleGlobalToggle
GlobalToggle ==
    /\ committed = Latest
    /\ LET newState == ~committed.globalGenerationAllowed
       IN /\ globalGenerationAllowed' = newState
          /\ IF ~newState
             THEN /\ confirmations' = [i \in Handles |-> ""]
                  /\ isGeneratingPreview' = [i \in Handles |-> FALSE]
             ELSE UNCHANGED <<confirmations, isGeneratingPreview>>
    /\ lastStep' = Step("GlobalToggle", Handles)
    /\ UNCHANGED <<payloadRegistry, evicted, instanceSettings, resolved,
                   lastPromptsRef, committed, envVars, callVars, otherVars>>

\* handleInstanceToggle(index, effectiveAllowed)
InstanceToggle ==
    \E i \in Handles :
        /\ committed = Latest
        /\ LET payload == InstancePayload(committed, i)
               currentAllowed == IF payload = Undefined THEN TRUE
                                 ELSE payload.generationAllowed
               newState == ~currentAllowed
           IN /\ instanceSettings' = [instanceSettings EXCEPT ![i] = newState]
              /\ IF ~newState
                 THEN /\ confirmations' = [confirmations EXCEPT ![i] = ""]
                      /\ isGeneratingPreview' = [isGeneratingPreview EXCEPT ![i] = FALSE]
                 ELSE UNCHANGED <<confirmations, isGeneratingPreview>>
        /\ lastStep' = Step("InstanceToggle", {i})
        /\ UNCHANGED <<payloadRegistry, evicted, globalGenerationAllowed, resolved,
                       lastPromptsRef, committed, envVars, callVars, otherVars>>

\* the overlay's Confirm button: handleConfirmGeneration(index, prompt, url)
ConfirmGeneration ==
    \E i \in Handles :
        /\ committed = Latest
        /\ ShowOverlay(committed, i)
        /\ ShowConfirmButton(committed, i)
        /\ LET prompt == CurrentPrompt(committed.resolved[i])
               confirmedUrl == EffectivePreview(committed, i)
           IN /\ confirmations' = [confirmations EXCEPT ![i] = prompt]
              /\ \E t \in Clock :
                     /\ now' = t
                     /\ payloadRegistry' =
                            updatePayload(payloadRegistry, i, ConfirmPartial(confirmedUrl, t))
              /\ accepted' = [accepted EXCEPT ![i] = confirmedUrl]
        /\ lastStep' = Step("ConfirmGeneration", {i})
        /\ evicted' = Evictions(payloadRegistry, payloadRegistry')
        /\ UNCHANGED <<isGeneratingPreview, globalGenerationAllowed, instanceSettings,
                       resolved, lastPromptsRef, committed, requests, apiKey,
                       callVars, otherVars>>

\* the overlay's history buttons: seekHistory(id, handle, direction)
SeekHistory ==
    \E i \in Handles, direction \in {-1, 1} :
        /\ committed = Latest
        /\ ShowOverlay(committed, i)
        /\ SeekEnabled(committed, i, direction)
        /\ payloadRegistry' = seekHistory(payloadRegistry, i, direction)
        /\ lastStep' = Step("SeekHistory", {i})
        /\ evicted' = Evictions(payloadRegistry, payloadRegistry')
        /\ UNCHANGED <<nodeVars, envVars, callVars, otherVars>>

\* upstream: the edges or the resolved context of an instance change, to
\* one of `contexts`
SourceChangedTo(contexts) ==
    \E i \in Handles, context \in contexts :
        /\ committed = Latest
        /\ context # resolved[i]
        /\ resolved' = [resolved EXCEPT ![i] = context]
        /\ lastStep' = Step("SourceChanged", {i})
        /\ UNCHANGED <<payloadRegistry, evicted, confirmations, isGeneratingPreview,
                       globalGenerationAllowed, instanceSettings, lastPromptsRef,
                       committed, envVars, callVars, otherVars>>

SourceChanged == SourceChangedTo(Contexts)

\* a settled request is remembered with its outcome only while an older
\* request is still pending; otherwise it is "done"
Forget(reqs) ==
    [k \in 1 .. Len(reqs) |->
        IF reqs[k].state # "pending"
           /\ \A j \in 1 .. k : reqs[j].state # "pending"
        THEN [reqs[k] EXCEPT !.state = "done"]
        ELSE reqs[k]]

Settle(k, outcome) ==
    /\ requests' = Forget([requests EXCEPT ![k].state = outcome])
    /\ isGeneratingPreview' = [isGeneratingPreview EXCEPT ![requests[k].slot] = FALSE]
    /\ evicted' = Evictions(payloadRegistry, payloadRegistry')
    /\ UNCHANGED <<confirmations, globalGenerationAllowed, instanceSettings, resolved,
                   lastPromptsRef, committed, apiKey, accepted, callVars, otherVars>>

\* generateContent resolves with an image: PHASE 2: FILL, then finally
CompleteFilled ==
    \E k \in 1 .. Len(requests) :
        /\ requests[k].state = "pending"
        /\ \E t \in Clock :
               /\ now' = t
               /\ payloadRegistry' = updatePayload(payloadRegistry, requests[k].slot,
                                                   FillPartial(ImageOf(k), t))
        /\ lastStep' = Step("CompleteFilled", {requests[k].slot})
        /\ Settle(k, "filled")

\* generateContent resolves without image data: finally only
CompleteEmpty ==
    \E k \in 1 .. Len(requests) :
        /\ requests[k].state = "pending"
        /\ UNCHANGED <<payloadRegistry, now>>
        /\ lastStep' = Step("CompleteEmpty", {requests[k].slot})
        /\ Settle(k, "settled")

\* generateContent rejects: catch, then finally
CompleteFailed ==
    \E k \in 1 .. Len(requests) :
        /\ requests[k].state = "pending"
        /\ payloadRegistry' = updatePayload(payloadRegistry, requests[k].slot, FailPartial)
        /\ now' = now
        /\ lastStep' = Step("CompleteFailed", {requests[k].slot})
        /\ Settle(k, "settled")

Next ==
    \/ Render
    \/ GlobalToggle
    \/ InstanceToggle
    \/ ConfirmGeneration
    \/ SeekHistory
    \/ SourceChanged
    \/ CompleteFilled
    \/ CompleteEmpty
    \/ CompleteFailed

Spec == Init /\ [][Next]_vars

\* Spec with its scheduling: React renders a node whose state has changed,
\* and every call of the image service returns
SpecLive ==
    /\ Init /\ [][Next]_vars
    /\ WF_vars(Render)
    /\ WF_vars(CompleteFilled \/ CompleteEmpty \/ CompleteFailed)

----------------------------------------------------------------------------
(* SpecChain: the same node in a longer run of prompt edits.  An API key is *)
(* set, the gates stay open and the source stays connected with a           *)
(* generative strategy; the user edits the prompt upstream and confirms     *)
(* drafts while requests complete or fail.                                   *)

InitChain ==
    /\ CallIdle /\ pc = "chain"
    /\ StoreEmpty /\ NodeUnmounted /\ EnvIdle /\ OthersIdle
    /\ apiKey = TRUE

RenderChain == RenderWithin(MaxChain)

\* upstream: the analyst's prompt for an instance changes
PromptChanged == SourceChangedTo({c \in Contexts : CurrentPrompt(c) # ""})

NextChain ==
    \/ RenderChain
    \/ ConfirmGeneration
    \/ PromptChanged
    \/ CompleteFilled
    \/ CompleteFailed

SpecChain == InitChain /\ [][NextChain]_vars

----------------------------------------------------------------------------
(* SpecResolve: resolveLayer as a function of its two arguments *)

\* the characters of a requested name: the marker, white space, a letter
Chars == {"!", " ", "S"}

TemplateNames == UNION { [1 .. n -> Chars] : n \in 0 .. MaxName }

\* the names of the layers of a design tree: a name in either case, or none
LayerNames == Opt("name", { <<"S">>, <<"s">> })

\* the layers a tree can hold at a depth: a layer without children (no
\* array, or an empty one) or a group with one child; ids follow the path
RECURSIVE LayersAt(_, _)
LayersAt(depth, id) ==
    { [id |-> id] @@ n @@ c :
        n \in LayerNames, c \in Opt("children", { <<>> }) }
    \cup
    (IF depth < MaxDepth
     THEN { [id |-> id, children |-> <<child>>] @@ n :
              n \in LayerNames, child \in LayersAt(depth + 1, 10 * id + 1) }
     ELSE {})

RECURSIVE LayerArrays(_)
LayerArrays(n) ==
    IF n = 0 THEN { <<>> }
    ELSE { Append(layers, layer) :
             layers \in LayerArrays(n - 1), layer \in LayersAt(1, n) }

DesignTrees ==
    {Null} \cup { Tree(layers) : layers \in UNION { LayerArrays(n) : n \in 0 .. MaxWidth } }

ResolverIdle ==
    /\ CallIdle
    /\ StoreEmpty /\ NodeUnmounted /\ EnvIdle /\ apiKey = FALSE
    /\ sourceRect = Undefined /\ targetRect = Undefined
    /\ aiStrategy = Undefined /\ sourceLayers = <<>>
    /\ transformResult = Undefined
    /\ timers = <<>>
    /\ registry = Undefined

InitResolve ==
    /\ templateName \in TemplateNames
    /\ designTree \in DesignTrees
    /\ resolverResult = Undefined
    /\ pc = "resolve"
    /\ ResolverIdle

\* a caller resolves a container name against the design layers
Resolve ==
    /\ pc = "resolve"
    /\ resolverResult' = resolveLayer(templateName, designTree)
    /\ pc' = "resolved"
    /\ UNCHANGED <<incomingPayload, currentPayload, result, result2,
                   storeVars, nodeVars, envVars,
                   templateName, designTree, transformVars, timers, registry>>

NextResolve == Resolve

SpecResolve == InitResolve /\ [][NextResolve]_vars

----------------------------------------------------------------------------
(* SpecTransform: the layout transform as a function of the resolved source *)
(* and target                                                               *)

SourceRects ==
    { [x |-> x, y |-> y, w |-> w, h |-> h] :
        x \in {0, 10}, y \in {0, 10}, w \in {50, 100}, h \in {50, 100} }

TargetRects ==
    { [x |-> 0, y |-> y, w |-> w, h |-> h] :
        y \in {0, 20}, w \in {50, 100}, h \in {50, 100} }

\* per-layer overrides of the analyst, for the top layer 1 or the nested
\* layer 11
Overrides ==
    { <<>> } \cup
    { << [layerId |-> id, xOffset |-> 5, yOffset |-> dy, individualScale |-> Num(2)] >> :
        id \in {1, 11}, dy \in {-30, 130} }

LayoutStrategies ==
    {Undefined} \cup
    { [suggestedScale |-> sc, anchor |-> a] @@ o :
        sc \in {Frac(1, 2), Num(2)},
        a  \in {"TOP", "CENTER", "BOTTOM"},
        o  \in Opt("overrides", Overrides) }

\* layers in, above and below a source box; ids follow the path
RECURSIVE SourceLayersAt(_, _)
SourceLayersAt(depth, id) ==
    LET boxes == { [x |-> 10, y |-> y, w |-> 20, h |-> 20] : y \in {-30, 10, 130} }
    IN { [id |-> id, coords |-> c] : c \in boxes }
       \cup
       (IF depth < MaxNest
        THEN { [id |-> id, coords |-> c, children |-> <<child>>] :
                 c \in boxes, child \in SourceLayersAt(depth + 1, 10 * id + 1) }
        ELSE {})

InitTransform ==
    /\ sourceRect \in SourceRects
    /\ targetRect \in TargetRects
    /\ aiStrategy \in LayoutStrategies
    /\ sourceLayers \in { <<layer>> : layer \in SourceLayersAt(1, 1) }
    /\ transformResult = Undefined
    /\ pc = "transform"
    /\ CallIdle
    /\ StoreEmpty /\ NodeUnmounted /\ EnvIdle /\ apiKey = FALSE
    /\ templateName = <<>> /\ designTree = <<>> /\ resolverResult = Undefined
    /\ timers = <<>>
    /\ registry = Undefined

\* the node computes the payload of an instance
Transform ==
    /\ pc = "transform"
    /\ transformResult' = ComputePayload(sourceRect, targetRect, aiStrategy, sourceLayers)
    /\ pc' = "transformed"
    /\ UNCHANGED <<incomingPayload, currentPayload, result, result2,
                   storeVars, nodeVars, envVars, resolverVars,
                   sourceRect, targetRect, aiStrategy, sourceLayers,
                   timers, registry>>

NextTransform == Transform

SpecTransform == InitTransform /\ [][NextTransform]_vars

----------------------------------------------------------------------------
(* SpecNotify: the registry of one node and the timers of the event loop.   *)
(* A step is one turn of the event loop: a call of the store with the       *)
(* functional update it queues applied, or the run of a timer that is due.  *)
(* lastStep records the argument of the call (`input`), whether the updater *)
(* returned a new registry object (`fresh`), the events it built (`events`) *)
(* and the events handed to the listeners during the step (`delivered`).    *)

\* candidates of every generation with one of two drafts, and a closed gate
NotifyCandidates ==
    { CandidateGeometry @@ [status |-> "success", isTransient |-> TRUE,
                            isConfirmed |-> FALSE, generationAllowed |-> TRUE,
                            previewUrl |-> url, generationId |-> gid] :
        url \in {"u1", "u2"}, gid \in GenIds }
    \cup
    { CandidateGeometry @@ [status |-> "success", isTransient |-> FALSE,
                            isConfirmed |-> FALSE, generationAllowed |-> FALSE] }

NotifyPartials ==
    {FlushPartial, FailPartial, RevokePartial}
    \cup {FillPartial("u2", t) : t \in GenIds}

InitNotify ==
    /\ CallIdle /\ pc = "notify"
    /\ StoreEmpty /\ NodeUnmounted /\ EnvIdle /\ OthersIdle /\ apiKey = FALSE

NotifyRegisterPayload ==
    \E h \in Handles, payload \in NotifyCandidates :
        LET events == DraftRefresh(payloadRegistry, h, payload)
            out    == SetTimeout(timers, events)
        IN /\ Len(timers) < MaxTimers
           /\ payloadRegistry' = registerPayload(payloadRegistry, h, payload)
           /\ timers' = out.timers
           /\ lastStep' = Step("registerPayload", {h})
                           @@ [input |-> payload, events |-> events,
                               fresh |-> ~RegisterReturnsPrev(payloadRegistry, h, payload),
                               delivered |-> out.delivered]
           /\ UNCHANGED <<callVars, nodeVars, envVars, evicted,
                          resolverVars, transformVars, registry>>

NotifyUpdatePayload ==
    \E h \in Handles, partial \in NotifyPartials :
        LET out == SetTimeout(timers, NoEvents)
        IN /\ payloadRegistry' = updatePayload(payloadRegistry, h, partial)
           /\ timers' = out.timers
           /\ lastStep' = Step("updatePayload", {h})
                           @@ [input |-> partial, events |-> NoEvents,
                               fresh |-> ~UpdateReturnsPrev(payloadRegistry, h, partial),
                               delivered |-> out.delivered]
           /\ UNCHANGED <<callVars, nodeVars, envVars, evicted,
                          resolverVars, transformVars, registry>>

\* the timer that is due first runs: window.dispatchEvent(event)
DispatchEvent ==
    /\ timers # <<>>
    /\ timers' = Tail(timers)
    /\ lastStep' = Step("dispatchEvent", {Head(timers).handleId})
                    @@ [delivered |-> {Head(timers)}]
    /\ UNCHANGED <<callVars, payloadRegistry, nodeVars, envVars, evicted,
                   resolverVars, transformVars, registry>>

NextNotify ==
    \/ NotifyRegisterPayload
    \/ NotifyUpdatePayload
    \/ DispatchEvent

SpecNotify == InitNotify /\ [][NextNotify]_vars

----------------------------------------------------------------------------
(* SpecSlots: the registry of two nodes with two output handles each, under *)
(* the operations that address one (node, handle) pair.  lastStep records   *)
(* the node and the handle the call addresses.                              *)

Nodes == {"n1", "n2"}
SlotHandles == {0, 1}

\* the pairs the calls address; ("n2", 1) is never written
Slots == {<<"n1", 0>>, <<"n1", 1>>, <<"n2", 0>>}

\* a first draft, a draft of the latest generation, and a closed gate
SlotCandidates ==
    { CandidateGeometry @@ [status |-> "success", isTransient |-> TRUE,
                            isConfirmed |-> FALSE, generationAllowed |-> TRUE,
                            previewUrl |-> "u1", generationId |-> 1],
      CandidateGeometry @@ [status |-> "success", isTransient |-> TRUE,
                            isConfirmed |-> FALSE, generationAllowed |-> TRUE,
                            previewUrl |-> "u2", generationId |-> MaxGen],
      CandidateGeometry @@ [status |-> "success", isTransient |-> FALSE,
                            isConfirmed |-> FALSE, generationAllowed |-> FALSE] }

\* the report of a failed generation and the result of the first generation
SlotPartials == {FailPartial, FillPartial("u1", 1)}

InitSlots ==
    /\ CallIdle /\ pc = "slots"
    /\ StoreEmpty /\ NodeUnmounted /\ EnvIdle /\ apiKey = FALSE
    /\ templateName = <<>> /\ designTree = <<>> /\ resolverResult = Undefined
    /\ sourceRect = Undefined /\ targetRect = Undefined
    /\ aiStrategy = Undefined /\ sourceLayers = <<>>
    /\ transformResult = Undefined
    /\ timers = <<>>
    /\ registry = [n \in Nodes |-> [h \in SlotHandles |-> Undefined]]

\* what a call for a pair leaves alone outside the registry
slotFrame == <<callVars, payloadRegistry, evicted, nodeVars, envVars,
               resolverVars, transformVars, timers>>

SlotsRegisterPayload ==
    \E slot \in Slots, payload \in SlotCandidates :
        /\ registry' = InNode(registry, slot[1],
                              registerPayload(registry[slot[1]], slot[2], payload))
        /\ lastStep' = Step("registerPayload", {slot[2]}) @@ [node |-> slot[1]]
        /\ UNCHANGED slotFrame

SlotsUpdatePayload ==
    \E slot \in Slots, partial \in SlotPartials :
        /\ registry' = InNode(registry, slot[1],
                              updatePayload(registry[slot[1]], slot[2], partial))
        /\ lastStep' = Step("updatePayload", {slot[2]}) @@ [node |-> slot[1]]
        /\ UNCHANGED slotFrame

SlotsUpdatePreview ==
    \E slot \in Slots :
        /\ registry' = InNode(registry, slot[1],
                              updatePreview(registry[slot[1]], slot[2], "u1"))
        /\ lastStep' = Step("updatePreview", {slot[2]}) @@ [node |-> slot[1]]
        /\ UNCHANGED slotFrame

SlotsSeekHistory ==
    \E slot \in Slots, direction \in {-1, 1} :
        /\ registry' = InNode(registry, slot[1],
                              seekHistory(registry[slot[1]], slot[2], direction))
        /\ lastStep' = Step("seekHistory", {slot[2]}) @@ [node |-> slot[1]]
        /\ UNCHANGED slotFrame

NextSlots ==
    \/ SlotsRegisterPayload
    \/ SlotsUpdatePayload
    \/ SlotsUpdatePreview
    \/ SlotsSeekHistory

SpecSlots == InitSlots /\ [][NextSlots]_vars

----------------------------------------------------------------------------
(* SpecCandidate: the candidate payload of an instance as a function of the *)
(* resolved source, the confirmations and the gate                          *)

\* strategies with and without a prompt, explicit or not, below, at and
\* above the distortion threshold; and sources without a strategy
CandidateContexts ==
    { [ready |-> TRUE, scale |-> 1,
       aiStrategy |-> [method |-> "GENERATIVE", generativePrompt |-> p,
                       isExplicitIntent |-> e, suggestedScale |-> sc]] :
        p \in {""} \cup Prompts, e \in BOOLEAN,
        sc \in scaleThreshold - 1 .. scaleThreshold + 1 }
    \cup
    { [ready |-> TRUE, scale |-> sc] :
        sc \in scaleThreshold - 1 .. scaleThreshold + 1 }

InitCandidate ==
    /\ resolved \in [Handles -> CandidateContexts]
    /\ confirmations \in [Handles -> {""} \cup Prompts]
    /\ globalGenerationAllowed \in BOOLEAN
    /\ isGeneratingPreview = [i \in Handles |-> FALSE]
    /\ instanceSettings = [i \in Handles |-> TRUE]
    /\ lastPromptsRef = [i \in Handles |-> ""]
    /\ committed = Undefined
    /\ incomingPayload = Undefined /\ currentPayload = Undefined
    /\ result = Undefined /\ result2 = Undefined
    /\ pc = "candidate"
    /\ StoreEmpty /\ EnvIdle /\ OthersIdle /\ apiKey = FALSE

\* the render computes instances[i].payload for every instance
ComputeCandidate ==
    /\ pc = "candidate"
    /\ result' = [i \in Handles |-> InstancePayload(Latest, i)]
    /\ pc' = "computed"
    /\ UNCHANGED <<incomingPayload, currentPayload, result2,
                   storeVars, nodeVars, envVars, otherVars>>

NextCandidate == ComputeCandidate

SpecCandidate == InitCandidate /\ [][NextCandidate]_vars

----------------------------------------------------------------------------
(* Claims about the reconciler as a function (SpecReconcile) *)

\* the layers of s that are not generative, in order
RECURSIVE WithoutGenerative(_)
WithoutGenerative(s) ==
    IF s = <<>> THEN <<>>
    ELSE IF Head(s).type = "generative" THEN WithoutGenerative(Tail(s))
    ELSE <<Head(s)>> \o WithoutGenerative(Tail(s))

GateClosed(p) == Has(p, "generationAllowed") /\ p.generationAllowed = FALSE

\* no preview, no draft, empty history, all three flags false
Stripped(p) ==
    /\ ~Has(p, "previewUrl")
    /\ ~Has(p, "latestDraftUrl")
    /\ Has(p, "history") /\ p.history = <<>>
    /\ Has(p, "isConfirmed") /\ p.isConfirmed = FALSE
    /\ Has(p, "isTransient") /\ p.isTransient = FALSE
    /\ Has(p, "isSynthesizing") /\ p.isSynthesizing = FALSE

\* C1: kill-switch completeness. A candidate with generationAllowed = false
\* reconciled against any stored payload (or none) yields a payload with no
\* previewUrl and no latestDraftUrl, an empty history, isConfirmed =
\* isTransient = isSynthesizing = false, the candidate's scaleFactor and
\* metrics, and the candidate's layers without the generative ones, in order.
C1_KillSwitchComplete ==
    (pc # "start" /\ GateClosed(incomingPayload)) =>
        /\ Stripped(result)
        /\ result.scaleFactor = incomingPayload.scaleFactor
        /\ result.metrics = incomingPayload.metrics
        /\ result.layers = WithoutGenerative(incomingPayload.layers)

\* the kill switch has acted on a candidate that carried a preview, a draft
\* and a generative layer, against a store that had a preview and a history
C1_Witness ==
    /\ pc = "once"
    /\ GateClosed(incomingPayload)
    /\ Has(incomingPayload, "previewUrl") /\ Has(incomingPayload, "latestDraftUrl")
    /\ currentPayload # Undefined
    /\ Has(currentPayload, "previewUrl") /\ currentPayload.history # <<>>
    /\ Len(result.layers) < Len(incomingPayload.layers)
    /\ Stripped(result)

\* the stored payload has generationId N and the candidate N-1
OneGenerationOlder ==
    /\ currentPayload # Undefined
    /\ GenId(currentPayload) # 0 /\ GenId(incomingPayload) # 0
    /\ GenId(incomingPayload) = GenId(currentPayload) - 1

\* C2 as stated: a candidate whose generationId is N-1, reconciled against a
\* stored payload with generationId N, returns the stored payload unchanged.
C2_StaleRejectedAlways ==
    (pc # "start" /\ OneGenerationOlder) => result = currentPayload

\* C2 amended: the same, for candidates whose gate is not closed (the kill
\* switch is decided before the stale guard).
C2_StaleRejected ==
    (pc # "start" /\ OneGenerationOlder /\ ~GateClosed(incomingPayload))
        => result = currentPayload

\* an older candidate with different content was rejected
C2_Witness ==
    /\ pc = "once"
    /\ OneGenerationOlder /\ ~GateClosed(incomingPayload)
    /\ PreviewUrl(incomingPayload) # PreviewUrl(currentPayload)
    /\ incomingPayload.scaleFactor # currentPayload.scaleFactor
    /\ result = currentPayload

\* C8: idempotence. Registering the same candidate a second time, against
\* the payload the first registration stored, yields that stored payload
\* again: no further history entry, nothing for the registry to change.
C8_Idempotent ==
    pc = "twice" =>
        /\ result2 = result
        /\ HistoryOf(result2) = HistoryOf(result)

\* the first registration pushed the previous preview to history and the
\* second one has been applied
C8_Witness ==
    /\ pc = "twice"
    /\ currentPayload # Undefined
    /\ Len(HistoryOf(result)) = Len(HistoryOf(currentPayload)) + 1
    /\ result2 = result

\* a layout update: the candidate has no generationId, the store has one
GeometricCase ==
    /\ currentPayload # Undefined
    /\ GenId(incomingPayload) = 0 /\ GenId(currentPayload) # 0

KeepsStoredImages ==
    /\ PreviewUrl(result) = PreviewUrl(currentPayload)
    /\ Has(result, "history") /\ result.history = currentPayload.history
    /\ Has(result, "activeHistoryIndex")
    /\ result.activeHistoryIndex = currentPayload.activeHistoryIndex

TakesCandidateGeometry ==
    /\ result.layers = incomingPayload.layers
    /\ result.scaleFactor = incomingPayload.scaleFactor

\* C9 as stated: every candidate with no generationId reconciled against a
\* stored payload that has one keeps the store's previewUrl, history and
\* activeHistoryIndex and takes the candidate's layers and scaleFactor.
C9_GeometricPreservationAlways ==
    (pc # "start" /\ GeometricCase) => (KeepsStoredImages /\ TakesCandidateGeometry)

\* C9 amended: it does so when the candidate's gate is not closed and its
\* status is not idle (rules decided earlier); a candidate that is a
\* synthesis flush keeps the store's images too, but with the store's geometry.
C9_GeometricPreservation ==
    (pc # "start" /\ GeometricCase /\ ~GateClosed(incomingPayload)
       /\ incomingPayload.status # "idle") =>
        /\ KeepsStoredImages
        /\ ~Truthy(incomingPayload, "isSynthesizing") => TakesCandidateGeometry

\* a layout update carrying other images than the store's was reconciled and
\* the store's images survived
C9_Witness ==
    /\ pc = "once"
    /\ GeometricCase /\ ~GateClosed(incomingPayload)
    /\ incomingPayload.status # "idle"
    /\ ~Truthy(incomingPayload, "isSynthesizing")
    /\ Has(currentPayload, "previewUrl") /\ currentPayload.history # <<>>
    /\ PreviewUrl(incomingPayload) # PreviewUrl(currentPayload)
    /\ KeepsStoredImages /\ TakesCandidateGeometry

----------------------------------------------------------------------------
(* Claims about the registry under the store's API (SpecStore) *)

\* C6 as stated: in every reachable state of the registry, after any
\* sequence of registerPayload, updatePayload, updatePreview and seekHistory
\* calls, a stored payload with generationAllowed = false has no previewUrl,
\* no latestDraftUrl, an empty history and isConfirmed = isTransient =
\* isSynthesizing = false.
C6_GateEnforcedOnEveryWrite ==
    \A h \in Handles :
        GateClosed(payloadRegistry[h]) => Stripped(payloadRegistry[h])

\* a reconciliation of handle h has brought a new image in place of another
\* one that is not already the last entry of the history
NewImageArrived(h) ==
    LET old == payloadRegistry[h]
        new == payloadRegistry'[h]
    IN /\ lastStep'.name \in {"registerPayload", "updatePayload"}
       /\ h \in lastStep'.slots
       /\ PreviewUrl(old) # "" /\ PreviewUrl(new) # ""
       /\ PreviewUrl(new) # PreviewUrl(old)
       /\ \/ HistoryOf(old) = <<>>
          \/ HistoryOf(old)[Len(HistoryOf(old))] # PreviewUrl(old)

\* C10: history cap. Starting from an empty registry, no call of the store
\* leaves a history of more than 5 entries; a reconciliation that brings a
\* new image appends the previous preview, and when the history was full it
\* drops the oldest entry: the history is the most recent previous previews
\* in arrival order.
C10_HistoryCap ==
    [][\A h \in Handles :
        LET old == HistoryOf(payloadRegistry[h])
            new == HistoryOf(payloadRegistry'[h])
            previous == PreviewUrl(payloadRegistry[h])
        IN /\ Len(new) <= HistoryCap
           /\ (NewImageArrived(h) /\ Len(old) < HistoryCap)
                  => new = Append(old, previous)
           /\ (NewImageArrived(h) /\ Len(old) = HistoryCap)
                  => new = Tail(old) \o <<previous>>]_vars

\* a full history has dropped its oldest entry and is full again
C10_Witness ==
    \E h \in evicted :
        /\ Len(HistoryOf(payloadRegistry[h])) = HistoryCap
        /\ lastStep.name \in {"registerPayload", "updatePayload"}

----------------------------------------------------------------------------
(* Claims about the remapper node on the store (Spec) *)

\* the requests of the same slot dispatched after request j that have
\* returned an image
NewerFilled(j) ==
    {k \in (j + 1) .. Len(requests) :
        requests[k].slot = requests[j].slot /\ requests[k].state = "filled"}

MaxOf(S) == CHOOSE x \in S : \A y \in S : y <= x

\* C3 as stated: when a request dispatched later has completed first and the
\* store shows its result, the completion of the earlier request is
\* discarded: the registry entry does not change and the stored previewUrl
\* is still the result of the newer request.
C3_OlderCompletionDiscarded ==
    [][\A j \in 1 .. Len(requests) :
        LET i == requests[j].slot
        IN (/\ requests[j].state = "pending"
            /\ requests'[j].state # "pending"
            /\ lastStep'.name = "CompleteFilled"
            /\ NewerFilled(j) # {}
            /\ PreviewUrl(payloadRegistry[i]) = ImageOf(MaxOf(NewerFilled(j))))
           => /\ PreviewUrl(payloadRegistry'[i]) = ImageOf(MaxOf(NewerFilled(j)))
              /\ payloadRegistry'[i] = payloadRegistry[i]]_vars

\* C4: once the gate of a slot is closed and the kill switch has been
\* applied to its stored payload, a generation result that arrives through
\* updatePayload while the gate is still closed is discarded: the stored
\* payload still has no previewUrl, an empty history and isTransient = false.
C4_ResultDiscardedWhileGateClosed ==
    [][\A k \in 1 .. Len(requests) :
        LET i == requests[k].slot
        IN (/\ requests[k].state = "pending"
            /\ requests'[k].state # "pending"
            /\ lastStep'.name = "CompleteFilled"
            /\ ~EffectiveAllowed(Latest, i)
            /\ GateClosed(payloadRegistry[i])
            /\ Stripped(payloadRegistry[i]))
           => /\ ~Has(payloadRegistry'[i], "previewUrl")
              /\ HistoryOf(payloadRegistry'[i]) = <<>>
              /\ Has(payloadRegistry'[i], "isTransient")
              /\ payloadRegistry'[i].isTransient = FALSE]_vars

\* the result of a request has just arrived at a slot whose gate is closed
\* and whose stored payload is the kill switch's
C4_Witness ==
    \E i \in Handles :
        /\ lastStep = Step("CompleteFilled", {i})
        /\ ~EffectiveAllowed(Latest, i)
        /\ GateClosed(payloadRegistry[i])
        /\ Stripped(payloadRegistry[i])

\* C5 as stated: in every reachable state a stored payload has
\* isConfirmed = true only if its previewUrl is the image the user most
\* recently accepted through an explicit confirm on that slot.
C5_ConfirmedOnlyIfAccepted ==
    \A i \in Handles :
        Truthy(payloadRegistry[i], "isConfirmed") =>
            /\ accepted[i] # ""
            /\ PreviewUrl(payloadRegistry[i]) = accepted[i]

\* C7: the effects of a render dispatch a generation request, and the
\* synthesis flush before it, only for slots whose effective permission
\* (global gate and per-slot gate) is true.
C7_NoDispatchWhenGateClosed ==
    lastStep.name = "Render" =>
        \A i \in lastStep.slots : EffectiveAllowed(Latest, i)

\* a render has run its effects for a slot with a new prompt and a closed
\* gate, and has dispatched nothing
C7_Witness ==
    \E i \in Handles :
        /\ lastStep = Step("Render", {})
        /\ ~EffectiveAllowed(Latest, i)
        /\ CurrentPrompt(resolved[i]) # ""
        /\ CurrentPrompt(resolved[i]) # lastPromptsRef[i]
        /\ payloadRegistry[i] # Undefined

----------------------------------------------------------------------------
(* Further claims about the registry under the store's API (SpecStore) *)

\* C11 as stated: in every reachable state of the registry, after any
\* sequence of registerPayload, updatePayload, updatePreview and seekHistory
\* calls, every stored payload with a defined activeHistoryIndex has
\* 0 <= activeHistoryIndex <= history.length.
C11_CursorInRange ==
    \A h \in Handles :
        LET p == payloadRegistry[h]
        IN Has(p, "activeHistoryIndex") =>
            /\ 0 <= p.activeHistoryIndex
            /\ p.activeHistoryIndex <= Len(HistoryOf(p))

----------------------------------------------------------------------------
(* Further claims about the reconciler as a function (SpecReconcile) *)

\* the candidate carries the generationId of the stored payload
SameGeneration ==
    /\ currentPayload # Undefined
    /\ GenId(incomingPayload) # 0
    /\ GenId(incomingPayload) = GenId(currentPayload)

\* C12 as stated: a candidate whose generationId equals the stored payload's
\* is rejected like an older one: reconciling it (the gate not being closed)
\* returns the stored payload unchanged, whatever content it carries.
C12_EqualGenerationRejected ==
    (pc # "start" /\ SameGeneration /\ ~GateClosed(incomingPayload))
        => result = currentPayload

----------------------------------------------------------------------------
(* Further claims about the remapper node on the store (Spec) *)

\* the user has just confirmed the image shown for slot i, whose stored
\* payload exists and whose gate is open
ConfirmStep(i) ==
    /\ lastStep'.name = "ConfirmGeneration" /\ i \in lastStep'.slots
    /\ payloadRegistry[i] # Undefined
    /\ EffectiveAllowed(Latest, i)

\* the stored payload of slot i after the step is the promoted image url
Promoted(i, url) ==
    LET new == payloadRegistry'[i]
    IN /\ PreviewUrl(new) = url
       /\ Truthy(new, "isConfirmed")
       /\ Has(new, "isTransient") /\ new.isTransient = FALSE
       /\ Has(new, "sourceReference") /\ new.sourceReference = url

Range(s) == {s[k] : k \in 1 .. Len(s)}

\* the node renders slot i, confirmed under one prompt, with another prompt
\* now coming from upstream, while the stored payload is still confirmed
RevocationStep(i) ==
    /\ lastStep'.name = "Render"
    /\ confirmations[i] # ""
    /\ CurrentPrompt(resolved[i]) # ""
    /\ CurrentPrompt(resolved[i]) # confirmations[i]
    /\ Truthy(payloadRegistry[i], "isConfirmed")

\* C14 as stated: when a slot was confirmed under prompt A and the upstream
\* prompt then changes to B, the next reconciliation leaves the stored
\* payload with isConfirmed = false, does not discard history, and retains
\* the previously confirmed previewUrl (as the stored preview, or in history
\* once a draft has replaced it).
C14_RefinementRevokes ==
    [][\A i \in Handles :
        LET old == payloadRegistry[i]
            new == payloadRegistry'[i]
        IN RevocationStep(i) =>
            /\ ~Truthy(new, "isConfirmed")
            /\ HistoryOf(new) = HistoryOf(old)
            /\ \/ PreviewUrl(new) = PreviewUrl(old)
               \/ PreviewUrl(old) \in Range(HistoryOf(new))]_vars

\* the failure of the request of slot i has just been recorded
FailureStep(i) ==
    /\ lastStep'.name = "CompleteFailed" /\ i \in lastStep'.slots

\* C15: when the generation service call for a slot fails, recording the
\* failure leaves the slot's stored previewUrl and history exactly as they
\* were immediately before: last-known-good content is never cleared.
C15_FailureKeepsContent ==
    [][\A i \in Handles :
        FailureStep(i) =>
            /\ Maybe("previewUrl", payloadRegistry'[i]) = Maybe("previewUrl", payloadRegistry[i])
            /\ Maybe("history", payloadRegistry'[i]) = Maybe("history", payloadRegistry[i])]_vars

\* a failure has been recorded for a slot that holds a preview and a history
C15_Witness ==
    \E i \in Handles :
        /\ lastStep = Step("CompleteFailed", {i})
        /\ PreviewUrl(payloadRegistry[i]) # ""
        /\ HistoryOf(payloadRegistry[i]) # <<>>
        /\ Has(payloadRegistry[i], "isSynthesizing")
        /\ ~payloadRegistry[i].isSynthesizing

\* C16 as stated: when the generation service call for a slot fails, the
\* slot's stored payload ends with status = ERROR and isSynthesizing = false.
C16_FailureSetsErrorStatus ==
    [][\A i \in Handles :
        (FailureStep(i) /\ payloadRegistry[i] # Undefined) =>
            /\ payloadRegistry'[i].status = "error"
            /\ Has(payloadRegistry'[i], "isSynthesizing")
            /\ ~payloadRegistry'[i].isSynthesizing]_vars

\* the requests of slot i that are in flight
InFlight(i) ==
    {k \in 1 .. Len(requests) : requests[k].slot = i /\ requests[k].state = "pending"}

\* C17 as stated: at most one generation request is in flight per slot at
\* any time, for any sequence of prompt changes and re-renders.
C17_OneRequestInFlight ==
    \A i \in Handles : Cardinality(InFlight(i)) <= 1

\* a completion with an image, or a confirm, has just stamped slot i
StampStep(i) ==
    /\ lastStep'.name \in {"CompleteFilled", "ConfirmGeneration"}
    /\ i \in lastStep'.slots

\* C18 as stated: every generationId stamped on a slot by a successful
\* generation or by a confirm (the clock reading of that step) is strictly
\* greater than every generationId issued for that slot before, of which the
\* one the stored payload carries is one.
C18_FreshGenerationId ==
    [][\A i \in Handles :
        (StampStep(i) /\ GenId(payloadRegistry[i]) # 0) =>
            now' > GenId(payloadRegistry[i])]_vars

----------------------------------------------------------------------------
(* Claims about seekHistory and the events of the store (SpecStore) *)

\* seekHistory has just been called on the existing payload of handle h
SeekStep(h) ==
    /\ lastStep'.name = "seekHistory" /\ h \in lastStep'.slots
    /\ payloadRegistry[h] # Undefined

\* C19: seekHistory(slot, d) with d = +1 or -1 moves activeHistoryIndex by d
\* clamped to [0, history.length]; when the new index lies inside history
\* the stored previewUrl becomes history[newIndex] and isConfirmed becomes
\* false (nothing else changes); when the clamped index equals the old one,
\* or the move lands on the tip, the registry is left unchanged.
C19_SeekMovesCursor ==
    [][\A h \in Handles :
        SeekStep(h) =>
            LET old == payloadRegistry[h]
                new == payloadRegistry'[h]
                history == HistoryOf(old)
                oldIndex == IF Has(old, "activeHistoryIndex")
                            THEN old.activeHistoryIndex ELSE Len(history)
                moved == oldIndex + lastStep'.direction
                newIndex == IF moved < 0 THEN 0
                            ELSE IF moved > Len(history) THEN Len(history)
                            ELSE moved
                written == {"activeHistoryIndex", "previewUrl", "isConfirmed"}
            IN IF newIndex # oldIndex /\ newIndex < Len(history)
               THEN /\ new.activeHistoryIndex = newIndex
                    /\ new.previewUrl = history[newIndex + 1]
                    /\ new.isConfirmed = FALSE
                    /\ Del(new, written) = Del(old, written)
               ELSE payloadRegistry' = payloadRegistry]_vars

\* a seek back from the tip of a history of at least two entries has put
\* the last entry on show, unconfirmed
C19_Witness ==
    \E h \in Handles :
        LET p == payloadRegistry[h]
        IN /\ lastStep.name = "seekHistory" /\ lastStep.direction = -1
           /\ p # Undefined
           /\ Len(HistoryOf(p)) >= 2
           /\ p.activeHistoryIndex = Len(p.history) - 1
           /\ p.previewUrl = p.history[Len(p.history)]
           /\ p.isConfirmed = FALSE

\* a reconciliation has just been committed for handle h
ReconciledStep(h) ==
    /\ lastStep'.name \in {"registerPayload", "updatePayload"}
    /\ h \in lastStep'.slots

\* the 'draft refreshed' notification for the payload p of handle h
DraftRefreshed(h, p) ==
    [handleId |-> h, type |-> "DRAFT_REFRESH", isBillable |-> FALSE]
    @@ (IF Has(p, "previewUrl") THEN Field("newPreviewUrl", p.previewUrl)
        ELSE Undefined)

\* C20 as stated: whenever a reconciliation committed to the store (through
\* registerPayload or updatePayload) changes a slot's previewUrl while its
\* status and requiresGeneration remain unchanged, a 'draft refreshed'
\* notification carrying that slot, the new previewUrl and isBillable =
\* false is emitted; a reconciliation that does not change previewUrl, or
\* that changes status or requiresGeneration, emits none.
C20_DraftRefreshEmitted ==
    [][\A h \in Handles :
        ReconciledStep(h) =>
            LET old == payloadRegistry[h]
                new == payloadRegistry'[h]
                refreshed ==
                    /\ Maybe("previewUrl", new) # Maybe("previewUrl", old)
                    /\ Maybe("status", new) = Maybe("status", old)
                    /\ Maybe("requiresGeneration", new) = Maybe("requiresGeneration", old)
            IN lastStep'.events = IF refreshed THEN {DraftRefreshed(h, new)} ELSE {}]_vars

----------------------------------------------------------------------------
(* Claims about the synthesis flush (SpecReconcile) *)

\* a candidate that asks for synthesis, gate open and status not idle, is
\* reconciled against an existing stored payload
FlushCase ==
    /\ currentPayload # Undefined
    /\ Truthy(incomingPayload, "isSynthesizing")
    /\ ~GateClosed(incomingPayload)
    /\ incomingPayload.status # "idle"

\* the result carries the image, the history and the generation of the store
KeepsStoredDraft ==
    /\ Maybe("previewUrl", result) = Maybe("previewUrl", currentPayload)
    /\ HistoryOf(result) = HistoryOf(currentPayload)
    /\ Maybe("generationId", result) = Maybe("generationId", currentPayload)

\* C30 as stated: a candidate with isSynthesizing = true (gate open, status
\* not idle) reconciled against an existing stored payload yields a payload
\* with isSynthesizing = true whose previewUrl, history and generationId are
\* exactly those of the stored payload, whatever previewUrl or generationId
\* the candidate carries.
C30_FlushKeepsStoredAlways ==
    (pc # "start" /\ FlushCase) =>
        (Truthy(result, "isSynthesizing") /\ KeepsStoredDraft)

\* C30 amended: the same for a candidate that is not stale; a stale candidate
\* is rejected before the flush and the stored payload comes back unchanged,
\* with the isSynthesizing it had.
C30_FlushKeepsStored ==
    (pc # "start" /\ FlushCase) =>
        /\ KeepsStoredDraft
        /\ IsStale(incomingPayload, currentPayload) => result = currentPayload
        /\ ~IsStale(incomingPayload, currentPayload) => Truthy(result, "isSynthesizing")

\* a flush against a store that was not synthesizing and holds an image, a
\* history and a generation, by a candidate with another image and a newer
\* generation
C30_Witness ==
    /\ pc = "once" /\ FlushCase
    /\ ~currentPayload.isSynthesizing
    /\ PreviewUrl(currentPayload) = "u1" /\ PreviewUrl(incomingPayload) = "u2"
    /\ HistoryOf(currentPayload) # <<>>
    /\ GenId(currentPayload) = 1 /\ GenId(incomingPayload) = 2
    /\ Truthy(result, "isSynthesizing") /\ GenId(result) = 1

----------------------------------------------------------------------------
(* Claims about the name resolver (SpecResolve) *)

\* the children of a layer, none when it has no array
ChildrenOf(layer) == IF Has(layer, "children") THEN layer.children ELSE <<>>

\* the layers of a tree in depth-first pre-order
RECURSIVE PreOrder(_)
PreOrder(layers) ==
    IF layers = <<>> THEN <<>>
    ELSE <<Head(layers)>> \o PreOrder(ChildrenOf(Head(layers))) \o PreOrder(Tail(layers))

\* the length of the leading run of markers of a name
MarkerRun(name) ==
    CHOOSE b \in 0 .. Len(name) :
        /\ \A k \in 1 .. b : name[k] = "!"
        /\ b < Len(name) => name[b + 1] # "!"

\* what remains of a name without its leading run of markers and without
\* the white space around the rest
WithoutPrefix(name) ==
    LET ink == {k \in (MarkerRun(name) + 1) .. Len(name) : name[k] # " "}
    IN IF ink = {} THEN <<>>
       ELSE SubSeq(name, CHOOSE k \in ink : \A m \in ink : k <= m,
                         CHOOSE k \in ink : \A m \in ink : k >= m)

\* two names that differ in the case of their letters at most
SameIgnoringCase(a, b) ==
    /\ Len(a) = Len(b)
    /\ \A k \in 1 .. Len(a) : a[k] = b[k] \/ {a[k], b[k]} = {"S", "s"}

\* the layers, in pre-order, whose name is the name asked for exactly, and
\* those whose name is that name in another case
ExactIn(layers, name) ==
    SelectSeq(PreOrder(layers), LAMBDA l : LayerName(l) = name)
LooseIn(layers, name) ==
    SelectSeq(PreOrder(layers),
              LAMBDA l : LayerName(l) # name /\ SameIgnoringCase(LayerName(l), name))

\* the cleaned requested name and the layers of the tree that match it
Cleaned == WithoutPrefix(templateName)
ExactNodes == ExactIn(designTree.layers, WithoutPrefix(templateName))
LooseNodes == LooseIn(designTree.layers, WithoutPrefix(templateName))

\* a resolver call with a tree and a name that is not empty once cleaned
Searched == pc = "resolved" /\ designTree # Null /\ Cleaned # <<>>

\* C24: for every tree that contains, at any depth, a node whose name equals
\* the cleaned requested name exactly and another node whose name matches
\* only case-insensitively, resolveLayer returns the exact-case node (the
\* first one in pre-order), never the case-insensitive one, even when that
\* one comes earlier in pre-order; the status is RESOLVED when the returned
\* node has children.
C24_ExactCasePriority ==
    Searched =>
        LET exact == ExactNodes
        IN (exact # <<>> /\ LooseNodes # <<>>) =>
            /\ resolverResult.layer = exact[1]
            /\ LayerName(resolverResult.layer) = Cleaned
            /\ ChildrenOf(exact[1]) # <<>> => resolverResult.status = "RESOLVED"

\* the first layer in pre-order matches in another case, the exact-case
\* layer is nested and has children, and it is the one returned
C24_Witness ==
    /\ Searched
    /\ LooseNodes # <<>> /\ ExactNodes # <<>>
    /\ PreOrder(designTree.layers)[1] = LooseNodes[1]
    /\ ExactNodes[1].id > 10
    /\ ChildrenOf(ExactNodes[1]) # <<>>
    /\ resolverResult = ResolverResult("RESOLVED", ExactNodes[1])

\* C25 as stated: resolveLayer strips a leading run of '!' and the
\* surrounding white space from the requested name before matching, so a
\* request against a tree containing a node with the cleaned name and with
\* children resolves with status RESOLVED, and a request that is empty
\* after stripping yields NO_NAME.
C25_PrefixStrippedAlways ==
    (pc = "resolved" /\ designTree # Null /\ templateName # <<>>) =>
        /\ Cleaned = <<>> => resolverResult.status = "NO_NAME"
        /\ Cleaned # <<>> =>
               LET exact == ExactNodes
               IN (\E k \in 1 .. Len(exact) : ChildrenOf(exact[k]) # <<>>)
                      => resolverResult.status = "RESOLVED"

\* C25 amended: the same, where the node with children is the first node
\* in pre-order that has the cleaned name.
C25_PrefixStripped ==
    (pc = "resolved" /\ designTree # Null /\ templateName # <<>>) =>
        /\ Cleaned = <<>> => resolverResult = ResolverResult("NO_NAME", NoLayer)
        /\ Cleaned # <<>> =>
               LET exact == ExactNodes
               IN (exact # <<>> /\ ChildrenOf(exact[1]) # <<>>)
                      => resolverResult = ResolverResult("RESOLVED", exact[1])

\* the request '!!S' has resolved against a tree with a group named 'S'
C25_Witness ==
    /\ pc = "resolved" /\ designTree # Null
    /\ templateName = <<"!", "!", "S">>
    /\ Cleaned = <<"S">>
    /\ ExactNodes # <<>> /\ ChildrenOf(ExactNodes[1]) # <<>>
    /\ resolverResult.status = "RESOLVED"

\* the node the search settles on: the first exact-case node, else the first
\* node in another case
MatchedNodes == LET exact == ExactNodes IN IF exact # <<>> THEN exact ELSE LooseNodes

\* C26: whenever the node matched by resolveLayer has zero children, the
\* status is EMPTY_GROUP and the matched node is still returned, whether
\* the match came from the exact-case tier or from the case-insensitive
\* fallback.
C26_EmptyGroup ==
    Searched =>
        LET matched == MatchedNodes
        IN (matched # <<>> /\ ChildrenOf(matched[1]) = <<>>) =>
               resolverResult = ResolverResult("EMPTY_GROUP", matched[1])

\* the fallback tier has matched a nested layer with an empty children array
C26_Witness ==
    /\ Searched
    /\ ExactNodes = <<>> /\ LooseNodes # <<>>
    /\ Has(LooseNodes[1], "children") /\ LooseNodes[1].children = <<>>
    /\ LooseNodes[1].id > 10
    /\ resolverResult = ResolverResult("EMPTY_GROUP", LooseNodes[1])

ResolverStatuses ==
    {"RESOLVED", "CASE_MISMATCH", "MISSING_DESIGN_GROUP", "EMPTY_GROUP",
     "DATA_LOCKED", "NO_NAME"}

\* C27: resolveLayer is total and returns errors as values: for every name
\* and every tree, an unavailable one included, the call returns a result;
\* an unavailable tree yields DATA_LOCKED even when the name is empty, an
\* empty name yields NO_NAME, no match in either tier yields
\* MISSING_DESIGN_GROUP, and the returned layer is non-null exactly when
\* the status is RESOLVED, CASE_MISMATCH or EMPTY_GROUP.
C27_ErrorsAsValues ==
    /\ pc = "resolve" => ENABLED Resolve
    /\ pc = "resolved" =>
        /\ resolverResult.status \in ResolverStatuses
        /\ designTree = Null => resolverResult.status = "DATA_LOCKED"
        /\ (designTree # Null /\ templateName = <<>>) =>
               resolverResult.status = "NO_NAME"
        /\ (Searched /\ ExactNodes = <<>> /\ LooseNodes = <<>>) =>
               resolverResult.status = "MISSING_DESIGN_GROUP"
        /\ resolverResult.layer # NoLayer <=>
               resolverResult.status \in {"RESOLVED", "CASE_MISMATCH", "EMPTY_GROUP"}

\* an empty name against an unavailable tree has come back DATA_LOCKED
C27_Witness ==
    /\ pc = "resolved"
    /\ designTree = Null /\ templateName = <<>>
    /\ resolverResult = ResolverResult("DATA_LOCKED", NoLayer)

----------------------------------------------------------------------------
(* Claims about the layout transform (SpecTransform) *)

\* source and transformed layers, each list in depth-first pre-order
LayersIn == PreOrder(sourceLayers)
LayersOut == PreOrder(transformResult.layers)

\* the band of vertical positions the slot tolerates
BandTop == Minus(Num(targetRect.y), Over(Num(targetRect.h), Num(10)))
BandBottom == Plus(Num(targetRect.y + targetRect.h), Over(Num(targetRect.h), Num(10)))
InBand(y) == ~Below(y, BandTop) /\ ~Below(BandBottom, y)

\* twice the distance of a position from the centre of a box side
FromCentre(pos, start, size) == Minus(Times(Num(2), pos), Num(2 * start + size))

\* C28: without a layout strategy the scale factor is the smaller of the
\* width ratio and the height ratio of target to source, and every layer at
\* every depth keeps its identity, has its width and height multiplied by the
\* scale factor, and lies as far from the centre of the target box as the
\* scale factor times its distance from the centre of the source box: always
\* horizontally, and vertically whenever that position is inside the band
\* the slot tolerates (as it is for every layer that starts inside the
\* source box).
C28_BaselineTransform ==
    (pc = "transformed" /\ aiStrategy = Undefined) =>
        LET scale == transformResult.scaleFactor
            fitW  == Times(scale, Num(sourceRect.w))
            fitH  == Times(scale, Num(sourceRect.h))
        IN /\ ~Below(Num(targetRect.w), fitW)
           /\ ~Below(Num(targetRect.h), fitH)
           /\ fitW = Num(targetRect.w) \/ fitH = Num(targetRect.h)
           /\ Len(LayersOut) = Len(LayersIn)
           /\ \A k \in 1 .. Len(LayersIn) :
                LET in  == LayersIn[k]
                    out == LayersOut[k]
                    propY == Plus(Over(Num(2 * targetRect.y + targetRect.h), Num(2)),
                                  Times(scale,
                                        Over(Num(2 * (in.coords.y - sourceRect.y) - sourceRect.h),
                                             Num(2))))
                IN /\ out.id = in.id
                   /\ out.coords.w = Times(scale, Num(in.coords.w))
                   /\ out.coords.h = Times(scale, Num(in.coords.h))
                   /\ FromCentre(out.coords.x, targetRect.x, targetRect.w)
                        = Times(scale, FromCentre(Num(in.coords.x), sourceRect.x, sourceRect.w))
                   /\ InBand(propY) => out.coords.y = propY
                   /\ (in.coords.y >= sourceRect.y
                       /\ in.coords.y <= sourceRect.y + sourceRect.h) => InBand(propY)

\* source {0,0,100,100} into target {0,0,50,50} without a strategy: scale
\* factor 0.5, and the layer at {10,10,20,20} is placed at {5,5,10,10}
C28_Witness ==
    /\ pc = "transformed"
    /\ aiStrategy = Undefined
    /\ sourceRect = [x |-> 0, y |-> 0, w |-> 100, h |-> 100]
    /\ targetRect = [x |-> 0, y |-> 0, w |-> 50, h |-> 50]
    /\ sourceLayers[1].coords = [x |-> 10, y |-> 10, w |-> 20, h |-> 20]
    /\ transformResult.scaleFactor = Frac(1, 2)
    /\ transformResult.layers[1].coords
         = [x |-> Num(5), y |-> Num(5), w |-> Num(10), h |-> Num(10)]

\* C29: every transformed layer, at every depth, with or without an
\* override, with or without a strategy, has its vertical position inside
\* [t.y - t.h * P, t.y + t.h + t.h * P] for the target box t and P = 0.1.
C29_BoundaryClamp ==
    pc = "transformed" =>
        \A k \in 1 .. Len(LayersOut) : InBand(LayersOut[k].coords.y)

\* target height 100: a nested layer whose override puts it at t.y - 30 is
\* placed at t.y - 10, and its parent, computed below the band without an
\* override, at t.y + 110
C29_Witness ==
    /\ pc = "transformed"
    /\ targetRect.h = 100
    /\ aiStrategy # Undefined
    /\ FindOverride(aiStrategy, 11) # Undefined
    /\ FindOverride(aiStrategy, 11).yOffset = -30
    /\ FindOverride(aiStrategy, 1) = Undefined
    /\ Len(LayersOut) = 2
    /\ LayersOut[2].id = 11
    /\ LayersOut[2].coords.y = Num(targetRect.y - 10)
    /\ sourceLayers[1].coords.y = 130
    /\ LayersOut[1].coords.y = Num(targetRect.y + 110)

----------------------------------------------------------------------------
(* Claims about the notification and the no-op update (SpecNotify) *)

\* the step is a call of registerPayload or updatePayload
UpdaterStep == lastStep'.name \in {"registerPayload", "updatePayload"}

\* the slot the step addresses
Addressed == CHOOSE h \in lastStep'.slots : TRUE

\* C21: the step of registerPayload or updatePayload that builds a 'draft
\* refreshed' event hands no event to the listeners; it leaves the event as
\* the last of the timers that are due, in a registry whose payload for that
\* slot holds the preview the event announces.  A step that delivers an
\* event delivers the one timer that was due first before the step, and is
\* not a step of the reconciler: it leaves the registry as it is.
C21_DeliveredInLaterTurn ==
    [][ /\ UpdaterStep =>
             /\ lastStep'.delivered = {}
             /\ \A e \in lastStep'.events :
                  /\ timers' = Append(timers, e)
                  /\ e.type = "DRAFT_REFRESH"
                  /\ (IF Has(e, "newPreviewUrl") THEN e.newPreviewUrl ELSE "")
                       = PreviewUrl(payloadRegistry'[e.handleId])
        /\ lastStep'.name = "dispatchEvent" =>
             /\ timers # <<>>
             /\ lastStep'.delivered = {Head(timers)}
             /\ timers' = Tail(timers)
             /\ payloadRegistry' = payloadRegistry
      ]_vars

\* a draft refresh for "u2" has been delivered in a step of its own, and the
\* registry holds "u2"
C21_Witness ==
    /\ pc = "notify"
    /\ lastStep.name = "dispatchEvent"
    /\ \E e \in lastStep.delivered :
         /\ e.type = "DRAFT_REFRESH"
         /\ e.newPreviewUrl = "u2"
         /\ PreviewUrl(payloadRegistry[e.handleId]) = "u2"

\* C22: when registerPayload or updatePayload is called for a slot that holds
\* a payload and the reconciler returns a payload equal to the stored one
\* (for updatePayload: from the stored payload merged with the partial), the
\* registry after the step is the registry before it, the updater has
\* returned the registry object it was given, no event is built and the
\* timers are as before.
C22_NoOpChangesNothing ==
    [][ UpdaterStep =>
          LET cur    == payloadRegistry[Addressed]
              input  == lastStep'.input
              merged == IF lastStep'.name = "registerPayload" THEN input
                        ELSE MergePartial(cur, input)
          IN (cur # Undefined /\ reconcileTerminalState(merged, cur) = cur) =>
                /\ payloadRegistry' = payloadRegistry
                /\ ~lastStep'.fresh
                /\ lastStep'.events = {}
                /\ timers' = timers
      ]_vars

\* a candidate of an older generation with another draft has been rejected
\* as stale: the updater returned the registry it was given
C22_Witness ==
    /\ pc = "notify"
    /\ lastStep.name = "registerPayload"
    /\ payloadRegistry[0] # Undefined
    /\ GenId(lastStep.input) < GenId(payloadRegistry[0])
    /\ PreviewUrl(lastStep.input) # PreviewUrl(payloadRegistry[0])
    /\ lastStep.input.generationAllowed
    /\ ~lastStep.fresh
    /\ lastStep.events = {}

----------------------------------------------------------------------------
(* Claims about the independence of the slots (SpecSlots) *)

\* C23: a call of registerPayload, updatePayload, updatePreview or
\* seekHistory for one (node, handle) pair leaves the payload stored for
\* every other pair, of the same node and of every other node, as it was
\* before the call; among the calls are the report of a failed generation,
\* a candidate of an older generation and a result for a slot whose gate is
\* closed.
C23_SlotIndependence ==
    [][ lastStep'.name \in {"registerPayload", "updatePayload",
                            "updatePreview", "seekHistory"} =>
          \A n \in Nodes, h \in SlotHandles :
              (n # lastStep'.node \/ h \notin lastStep'.slots) =>
                  registry'[n][h] = registry[n][h]
      ]_vars

\* the report of a failed generation has been recorded for ("n1", 0) while
\* the other handle of the node and the other node hold payloads that
\* differ from it and from each other
C23_Witness ==
    /\ pc = "slots"
    /\ lastStep.name = "updatePayload"
    /\ lastStep.node = "n1" /\ lastStep.slots = {0}
    /\ Has(registry["n1"][0], "isSynthesizing")
    /\ ~registry["n1"][0].isSynthesizing
    /\ registry["n1"][1] # Undefined
    /\ registry["n2"][0] # Undefined
    /\ registry["n1"][1] # registry["n1"][0]
    /\ registry["n2"][0] # registry["n1"][0]
    /\ registry["n2"][0] # registry["n1"][1]
    /\ ~registry["n2"][0].generationAllowed

----------------------------------------------------------------------------
(* Claims about the result of a generation (Spec) *)

\* the step records the image of a request for slot i
FilledStep(i) == lastStep'.name = "CompleteFilled" /\ i \in lastStep'.slots

\* the request the step completes
Completed == CHOOSE k \in 1 .. Len(requests) :
                 requests[k].state = "pending" /\ requests'[k].state # "pending"

LastOf(s) == s[Len(s)]

\* C31: when a request completes with an image for a slot that holds a
\* payload with an open gate, the payload stored after the step has that
\* image as previewUrl, isTransient = TRUE, isSynthesizing = FALSE and
\* isConfirmed = FALSE; and if the slot held a preview before the step that
\* differs from the image and was not the last entry of its history, that
\* preview is the last entry of the history after the step.
C31_FillStoresDraft ==
    [][ \A i \in Handles :
          (FilledStep(i) /\ payloadRegistry[i] # Undefined
                         /\ Truthy(payloadRegistry[i], "generationAllowed")) =>
             LET cur == payloadRegistry[i]
                 new == payloadRegistry'[i]
                 url == ImageOf(Completed)
             IN /\ PreviewUrl(new) = url
                /\ Truthy(new, "isTransient")
                /\ Has(new, "isSynthesizing") /\ ~new.isSynthesizing
                /\ Has(new, "isConfirmed") /\ ~new.isConfirmed
                /\ (/\ PreviewUrl(cur) # ""
                    /\ PreviewUrl(cur) # url
                    /\ (HistoryOf(cur) = <<>> \/ LastOf(HistoryOf(cur)) # PreviewUrl(cur)))
                   => /\ HistoryOf(new) # <<>>
                      /\ LastOf(HistoryOf(new)) = PreviewUrl(cur)
      ]_vars

\* the second image has arrived for a slot that showed the first: the first
\* is the last entry of the history and the second is the draft
C31_Witness ==
    /\ pc = "node"
    /\ lastStep.name = "CompleteFilled"
    /\ \E i \in Handles :
         /\ i \in lastStep.slots
         /\ payloadRegistry[i] # Undefined
         /\ PreviewUrl(payloadRegistry[i]) = ImageOf(2)
         /\ HistoryOf(payloadRegistry[i]) # <<>>
         /\ LastOf(HistoryOf(payloadRegistry[i])) = ImageOf(1)
         /\ Truthy(payloadRegistry[i], "isTransient")
         /\ ~Truthy(payloadRegistry[i], "isSynthesizing")
         /\ ~Truthy(payloadRegistry[i], "isConfirmed")

\* C32 as stated: when a generation result or a confirm is stored through
\* updatePayload (a partial without activeHistoryIndex) for a slot that
\* holds a payload with an open gate, the payload stored after the step has
\* activeHistoryIndex equal to the length of its history.
C32_CursorAtNewest ==
    [][ \A i \in Handles :
          (/\ FilledStep(i) \/ ConfirmStep(i)
           /\ payloadRegistry[i] # Undefined
           /\ Truthy(payloadRegistry[i], "generationAllowed")) =>
             /\ Has(payloadRegistry'[i], "activeHistoryIndex")
             /\ payloadRegistry'[i].activeHistoryIndex
                  = Len(HistoryOf(payloadRegistry'[i]))
      ]_vars

----------------------------------------------------------------------------
(* Claims about the end of a synthesis (SpecLive) *)

\* the store marks slot i as synthesizing
Synthesizing(i) == Truthy(payloadRegistry[i], "isSynthesizing")

\* C33 as stated: a slot that is marked isSynthesizing = TRUE in the store
\* is later marked isSynthesizing = FALSE, unless its gate is closed.
C33_SynthesisEnds ==
    \A i \in Handles :
        Synthesizing(i) ~> (~Synthesizing(i) \/ ~EffectiveAllowed(Latest, i))

----------------------------------------------------------------------------
(* Claims about the overrides of the layout transform (SpecTransform) *)

\* the payload the transform computes when the strategy has no overrides
WithoutOverrides ==
    ComputePayload(sourceRect, targetRect, Del(aiStrategy, {"overrides"}), sourceLayers)

ClampToBand(y) == MathMax(BandTop, MathMin(y, BandBottom))

\* a computed position the clamp has not moved
StrictlyInBand(y) == Below(BandTop, y) /\ Below(y, BandBottom)

\* C34 as stated: a top layer with an override is placed at the target
\* origin plus its offsets (vertically inside the band the slot tolerates),
\* and each of its children without an override of its own is placed at
\* the position computed for it without overrides, shifted by the distance
\* the override has moved its parent from the parent's computed position
\* (vertically: when the clamp has moved neither computed position, and
\* inside the band).
C34_OverrideShiftsDescendants ==
    pc = "transformed" =>
        \A k \in 1 .. Len(sourceLayers) :
            LET override == FindOverride(aiStrategy, sourceLayers[k].id)
                parent   == transformResult.layers[k]
                computed == WithoutOverrides.layers[k]
                toX      == Plus(Num(targetRect.x), Num(override.xOffset))
                toY      == Plus(Num(targetRect.y), Num(override.yOffset))
                deltaX   == Minus(toX, computed.coords.x)
                deltaY   == Minus(toY, computed.coords.y)
            IN override # Undefined =>
                 /\ parent.coords.x = toX
                 /\ parent.coords.y = ClampToBand(toY)
                 /\ \A c \in 1 .. Len(ChildrenOf(parent)) :
                      FindOverride(aiStrategy, parent.children[c].id) = Undefined =>
                        /\ parent.children[c].coords.x
                             = Plus(computed.children[c].coords.x, deltaX)
                        /\ (StrictlyInBand(computed.coords.y)
                            /\ StrictlyInBand(computed.children[c].coords.y)) =>
                              parent.children[c].coords.y
                                = ClampToBand(Plus(computed.children[c].coords.y, deltaY))

----------------------------------------------------------------------------
(* Claims about the candidate payload (SpecCandidate) *)

\* the scale factor the node computes for instance i
ComputedScale(i) ==
    IF Has(resolved[i], "aiStrategy") THEN resolved[i].aiStrategy.suggestedScale
    ELSE resolved[i].scale

\* C35: the status of the candidate of an instance is awaiting_confirmation
\* exactly when the strategy has a non-empty prompt, the confirmation held
\* for the instance is not that prompt, and the intent is explicit or the
\* scale factor is above 2; otherwise it is success.  requiresGeneration is
\* TRUE exactly when the non-empty prompt is the confirmed prompt, and
\* exactly then the layers hold a generative layer, in front of the others.
C35_CandidateStatus ==
    pc = "computed" =>
        \A i \in Handles :
            LET prompt   == CurrentPrompt(resolved[i])
                explicit == Has(resolved[i], "aiStrategy")
                            /\ resolved[i].aiStrategy.isExplicitIntent
                awaiting == /\ prompt # ""
                            /\ confirmations[i] # prompt
                            /\ (explicit \/ ComputedScale(i) > 2)
            IN /\ awaiting => result[i].status = "awaiting_confirmation"
               /\ ~awaiting => result[i].status = "success"
               /\ result[i].requiresGeneration
                    <=> (prompt # "" /\ prompt = confirmations[i])
               /\ result[i].requiresGeneration
                    <=> (\E k \in 1 .. Len(result[i].layers) :
                            IsGenerativeLayer(result[i].layers[k]))
               /\ result[i].requiresGeneration
                    => IsGenerativeLayer(result[i].layers[1])

\* a prompt without explicit intent and without confirmation waits for the
\* confirmation because the scale factor is 3
C35_Witness ==
    /\ pc = "computed"
    /\ \E i \in Handles :
         /\ CurrentPrompt(resolved[i]) = "A"
         /\ ~resolved[i].aiStrategy.isExplicitIntent
         /\ confirmations[i] = "B"
         /\ ComputedScale(i) = 3
         /\ result[i].status = "awaiting_confirmation"
         /\ ~result[i].requiresGeneration

----------------------------------------------------------------------------
(* Claims about the life of a registry entry (SpecStore) *)

\* C36 as stated: when unregisterNode has just removed the node, a call
\* other than registerPayload (updatePayload with the result of a
\* generation among them) leaves the node without any payload entry.
C36_RemovedNodeStaysRemoved ==
    [][ (/\ lastStep.name = "unregisterNode"
         /\ payloadRegistry = EmptyRegistry
         /\ lastStep'.name # "registerPayload") =>
            payloadRegistry' = EmptyRegistry
      ]_vars

\* C37 as stated: a call of registerPayload, updatePayload, updatePreview or
\* seekHistory for a slot that stores a generationId leaves the slot with a
\* generationId that is defined and not smaller.
C37_GenerationIdMonotonic ==
    [][ \A h \in Handles :
          (/\ lastStep'.name \in {"registerPayload", "updatePayload",
                                  "updatePreview", "seekHistory"}
           /\ GenId(payloadRegistry[h]) # 0) =>
             GenId(payloadRegistry'[h]) >= GenId(payloadRegistry[h])
      ]_vars

\* the same for the steps of the remapper node
NodeKeepsGenerationId ==
    [][ \A h \in Handles :
          (GenId(payloadRegistry[h]) # 0) =>
             GenId(payloadRegistry'[h]) >= GenId(payloadRegistry[h])
      ]_vars

\* a payload that is marked as a draft and as confirmed
ConfirmedDraft(p) == Truthy(p, "isConfirmed") /\ Truthy(p, "isTransient")

ReconcilerMakesNoConfirmedDraft ==
    (pc = "once" /\ ~ConfirmedDraft(incomingPayload) /\ ~ConfirmedDraft(currentPayload))
        => ~ConfirmedDraft(result)

\* the image P is still held by payload p
Holds(p, P) ==
    \/ \E k \in 1..Len(HistoryOf(p)) : HistoryOf(p)[k] = P
    \/ (Has(p, "latestDraftUrl") /\ p.latestDraftUrl = P)
    \/ PreviewUrl(p) = P

\* C39: from a stored payload with activeHistoryIndex = history.length and
\* a defined previewUrl P, after seekHistory(-1) the image P is still held
\* by the slot (in history or as latestDraftUrl, or still on show when the
\* history is empty and nothing moves), and a following seekHistory(+1)
\* returns the slot to the tip with previewUrl = P.
C39_SeekKeepsLatest ==
    pc = "store" =>
      \A h \in Handles :
        LET p == payloadRegistry[h]
            P == PreviewUrl(p)
            back == seekHistory(payloadRegistry, h, -1)
            forth == seekHistory(back, h, 1)
        IN (/\ p # Undefined
            /\ Has(p, "activeHistoryIndex")
            /\ p.activeHistoryIndex = Len(HistoryOf(p))
            /\ P # "")
           => /\ Holds(back[h], P)
              /\ forth[h].activeHistoryIndex = Len(HistoryOf(forth[h]))
              /\ PreviewUrl(forth[h]) = P

\* the first half alone: the image on show at the tip survives a step back
SeekBackHoldsLatest ==
    [][\A h \in Handles :
        (/\ SeekStep(h) /\ lastStep'.direction = -1
         /\ Has(payloadRegistry[h], "activeHistoryIndex")
         /\ payloadRegistry[h].activeHistoryIndex = Len(HistoryOf(payloadRegistry[h]))
         /\ PreviewUrl(payloadRegistry[h]) # "")
        => Holds(payloadRegistry'[h], PreviewUrl(payloadRegistry[h]))]_vars

\* the second half alone: a step forward from the last entry of the history
\* reaches the tip
SeekForthReachesTip ==
    [][\A h \in Handles :
        (/\ SeekStep(h) /\ lastStep'.direction = 1
         /\ Has(payloadRegistry[h], "activeHistoryIndex")
         /\ payloadRegistry[h].activeHistoryIndex = Len(HistoryOf(payloadRegistry[h])) - 1)
        => payloadRegistry'[h].activeHistoryIndex = Len(HistoryOf(payloadRegistry'[h]))]_vars

====
